---- MODULE Spec2Model ----
(***************************************************************************)
(* Model of the two data-preparation scripts of the repository:            *)
(*   scripts/prepare_ampang_data.py    (fare matrix pivot, canonical       *)
(*                                      station keys, coordinate matcher)  *)
(*   scripts/prepare_transport_data.py (bus / vehicle / ridership          *)
(*                                      aggregations)                      *)
(*                                                                         *)
(* Python strings are modelled as sequences of one-character strings, so   *)
(* that lower(), replace(), split(), strip(), float(), int() and strptime  *)
(* are computed character by character as the interpreter computes them.   *)
(* A Python float is named by its repr (3.1346 is sign 1, digits 3 1 3 4 6, *)
(* exponent 0), next to the special values nan and inf.                    *)
(* Python's None is the value None.  A call that ends in an exception      *)
(* returns raised = TRUE and the process position names the outcome.       *)
(***************************************************************************)
EXTENDS Integers, Sequences, FiniteSets, TLC

VARIABLES
    pc,                 \* position of the running script / function
    canon_label,        \* canonical_name: the free-text station label
    canon_key,          \* canonical_name(canon_label)
    canon_rekey,        \* canonical_name(canon_key)
    fare_csv,           \* Fare.csv as csv.reader yields it: <<header, row, ...>>
    station_csv,        \* lrt-malaysia.csv as csv.reader yields it: <<header, row, ...>>
    station_order,      \* read_fare_matrix: first component of the result
    tidy_rows,          \* read_fare_matrix: second component of the result
    matched,            \* match_station_locations: first component
    unmatched,          \* match_station_locations: second component
    pipeline,           \* which script's main() is running
    src_files,          \* main(): which source files exist, and where
    out_files,          \* main(): state of every output file of data/
    bus_rows,           \* build_state_bus_counts: input rows
    bus_records,        \* build_state_bus_counts: result
    vehicle_rows,       \* build_motor_vehicle_trend: input rows
    vehicle_records,    \* build_motor_vehicle_trend: result
    ridership_rows,     \* build_rail_monthly_ridership: input rows
    ridership_records   \* build_rail_monthly_ridership: result

vars == <<pc, canon_label, canon_key, canon_rekey, fare_csv, station_csv, station_order,
          tidy_rows, matched, unmatched, pipeline, src_files, out_files,
          bus_rows, bus_records, vehicle_rows, vehicle_records,
          ridership_rows, ridership_records>>

canon_vars    == <<canon_label, canon_key, canon_rekey>>
ampang_vars   == <<fare_csv, station_csv, station_order, tidy_rows, matched, unmatched>>
main_vars     == <<pipeline, src_files, out_files>>
bus_vars      == <<bus_rows, bus_records>>
vehicle_vars  == <<vehicle_rows, vehicle_records>>
rail_vars     == <<ridership_rows, ridership_records>>

\* Python's None, and the value of a variable a script has not assigned yet.
None == "None"
Unset == "unset"

(***************************************************************************)
(* Strings                                                                 *)
(***************************************************************************)

\* U+2019 RIGHT SINGLE QUOTATION MARK, one character of a Python str.
RightQuote == "U+2019"

\* The characters of the model in ascending code-point order: the control
\* characters str.isspace() accepts (tab, LF, VT, FF, CR, U+001C..U+001F),
\* printable ASCII 0x20..0x7e (without the double quote, the backslash and
\* the backquote, which no input of the model contains), the other
\* characters str.isspace() accepts, and U+2019.  A character without a
\* TLA+ escape is named by its code point.  Python compares str by code
\* point.
CodePoints ==
    <<"\t", "\n", "U+000B", "\f", "\r", "U+001C", "U+001D", "U+001E", "U+001F",
      " ", "!", "#", "$", "%", "&", "'", "(",
      ")", "*", "+", ",", "-", ".", "/", "0", "1", "2", "3", "4",
      "5", "6", "7", "8", "9", ":", ";", "<", "=", ">", "?", "@",
      "A", "B", "C", "D", "E", "F", "G", "H", "I", "J", "K", "L",
      "M", "N", "O", "P", "Q", "R", "S", "T", "U", "V", "W", "X",
      "Y", "Z", "[", "]", "^", "_", "a", "b", "c", "d",
      "e", "f", "g", "h", "i", "j", "k", "l", "m", "n", "o", "p",
      "q", "r", "s", "t", "u", "v", "w", "x", "y", "z", "{", "|",
      "}", "~", "U+0085", "U+00A0", "U+1680", "U+2000", "U+2001", "U+2002",
      "U+2003", "U+2004", "U+2005", "U+2006", "U+2007", "U+2008", "U+2009",
      "U+200A", RightQuote, "U+2028", "U+2029", "U+202F", "U+205F", "U+3000">>

Ord(c) == CHOOSE i \in 1..Len(CodePoints) : CodePoints[i] = c

\* str.lower() on one character: A..Z map to a..z, everything else is kept.
OrdUpperA == Ord("A")
OrdUpperZ == Ord("Z")
OrdLowerA == Ord("a")
UpperChars == {CodePoints[i] : i \in OrdUpperA..OrdUpperZ}
LowerChar(c) ==
    IF c \in UpperChars THEN CodePoints[Ord(c) + (OrdLowerA - OrdUpperA)] ELSE c

lower(s) == [i \in 1..Len(s) |-> LowerChar(s[i])]

\* str.replace(old, new) for a one-character old.
RECURSIVE replace(_, _, _)
replace(s, old, new) ==
    IF s = <<>> THEN <<>>
    ELSE (IF Head(s) = old THEN new ELSE <<Head(s)>>) \o replace(Tail(s), old, new)

\* The whitespace str.split() and str.strip() act on: every character c
\* with c.isspace().
Whitespace ==
    { "\t", "\n", "U+000B", "\f", "\r", "U+001C", "U+001D", "U+001E", "U+001F", " "
    , "U+0085", "U+00A0", "U+1680", "U+2000", "U+2001", "U+2002", "U+2003", "U+2004"
    , "U+2005", "U+2006", "U+2007", "U+2008", "U+2009", "U+200A", "U+2028", "U+2029"
    , "U+202F", "U+205F", "U+3000" }

RECURSIVE SplitAcc(_, _, _)
SplitAcc(s, cur, acc) ==
    IF s = <<>> THEN (IF cur = <<>> THEN acc ELSE Append(acc, cur))
    ELSE IF Head(s) \in Whitespace
         THEN SplitAcc(Tail(s), <<>>, IF cur = <<>> THEN acc ELSE Append(acc, cur))
         ELSE SplitAcc(Tail(s), Append(cur, Head(s)), acc)

\* str.split() without arguments: maximal runs of non-whitespace.
split(s) == SplitAcc(s, <<>>, <<>>)

\* sep.join(tokens)
RECURSIVE join(_, _)
join(sep, tokens) ==
    IF tokens = <<>> THEN <<>>
    ELSE IF Len(tokens) = 1 THEN tokens[1]
    ELSE tokens[1] \o sep \o join(sep, Tail(tokens))

RECURSIVE lstrip(_)
lstrip(s) ==
    IF s # <<>> /\ Head(s) \in Whitespace THEN lstrip(Tail(s)) ELSE s

RECURSIVE rstrip(_)
rstrip(s) ==
    IF s # <<>> /\ s[Len(s)] \in Whitespace THEN rstrip(SubSeq(s, 1, Len(s) - 1)) ELSE s

\* str.strip()
strip(s) == rstrip(lstrip(s))

\* Python's `x in list`
InList(x, list) == \E i \in 1..Len(list) : list[i] = x

\* Lexicographic str comparison a < b by code point.
RECURSIVE StrLess(_, _)
StrLess(a, b) ==
    IF b = <<>> THEN FALSE
    ELSE IF a = <<>> THEN TRUE
    ELSE IF Head(a) = Head(b) THEN StrLess(Tail(a), Tail(b))
    ELSE Ord(Head(a)) < Ord(Head(b))

\* dict as a set of <<key, value...>> tuples with pairwise distinct keys.
DictHas(d, k) == \E e \in d : e[1] = k
DictGet(d, k) == CHOOSE e \in d : e[1] = k

\* All sequences over S of length 0..n.
SeqsUpTo(S, n) == UNION {[1..m -> S] : m \in 0..n}

(***************************************************************************)
(* CSV files                                                               *)
(*                                                                         *)
(* A CSV file is the sequence of rows csv.reader yields, each row the      *)
(* sequence of its cells (<<>> for a blank line).  A row of csv.DictReader *)
(* is a function from the column names of the first row to cells; a column *)
(* name is kept as one string, a cell as a sequence of characters.         *)
(***************************************************************************)

\* None where a str is expected: a value no string equals.
NoneStr == <<None>>

\* Python truthiness of a str-or-None.
Truthy(s) == s # NoneStr /\ s # <<>>

Range(seq) == {seq[i] : i \in 1..Len(seq)}

\* row.get(name): None for a column the file does not have.
RowGet(row, name) == IF name \in DOMAIN row THEN row[name] ELSE NoneStr

\* row.get(name, default)
RowGetOr(row, name, default) == IF name \in DOMAIN row THEN row[name] ELSE default

\* The dict csv.DictReader makes of a row: the cell under the last column of
\* each name, None for a column the row is too short for.  (Cells beyond
\* the header go to the key None, which no function of the scripts reads.)
DictRow(fieldnames, row) ==
    [name \in Range(fieldnames) |->
        LET col == CHOOSE i \in 1..Len(fieldnames) :
                       /\ fieldnames[i] = name
                       /\ \A j \in (i + 1)..Len(fieldnames) : fieldnames[j] # name
        IN  IF col <= Len(row) THEN row[col] ELSE NoneStr]

\* list(csv.DictReader(f)): the first row names the columns, blank lines
\* after it are skipped.
DictReader(file) ==
    IF file = <<>> THEN <<>>
    ELSE LET body == SelectSeq(Tail(file), LAMBDA row : row # <<>>)
         IN  [i \in 1..Len(body) |-> DictRow(Head(file), body[i])]
(***************************************************************************)
(* prepare_ampang_data.py: canonical_name                                  *)
(***************************************************************************)

TOKENS_TO_REMOVE ==
    { <<"s","t","e","s","e","n">>
    , <<"s","t","a","t","i","o","n">>
    , <<"s","t","a","t","i","o","n","s">>
    , <<"l","r","t">>
    , <<"m","r","t">>
    , <<"m","o","n","o","r","a","i","l">>
    , <<"l","i","n","e">>
    , <<"r","a","p","i","d","k","l">>
    , <<"p","u","t","r","a">>
    , <<"k","l","i","a">>
    , <<"m","a","l","a","y","s","i","a">>
    }

LINE_ABBREV ==
    { <<"k","j","l">>, <<"s","b","k">>, <<"a","g","c">>, <<"s","s","p">>
    , <<"k","e","l","a","n","a">>, <<"a","m","p","a","n","g">> }

\* The stopword test of the token loop (lines 97-100).
IsStopword(token) == token \in TOKENS_TO_REMOVE \/ token \in LINE_ABBREV

\* A variant that compares the raw tokens with the stopword sets first and
\* removes apostrophes from the joined result afterwards.
canonical_name_late_punct(label) ==
    LET text0 == lower(label)
        text1 == replace(text0, "&", <<" ", "a", "n", "d", " ">>)
        text3 == replace(replace(text1, "(", <<" ">>), ")", <<" ">>)
        cleaned_tokens == SelectSeq(split(text3), LAMBDA token : ~IsStopword(token))
        joined == strip(join(<<" ">>, cleaned_tokens))
    IN  replace(replace(joined, "'", <<>>), RightQuote, <<>>)

canonical_name(label) ==
    LET text0 == lower(label)
        text1 == replace(text0, "&", <<" ", "a", "n", "d", " ">>)
        text2 == replace(replace(text1, "'", <<>>), RightQuote, <<>>)
        text3 == replace(replace(text2, "(", <<" ">>), ")", <<" ">>)
        cleaned_tokens == SelectSeq(split(text3), LAMBDA token : ~IsStopword(token))
    IN  strip(join(<<" ">>, cleaned_tokens))

\* Values of the variables a specification does not use.
IdleCanon   == canon_label = Unset /\ canon_key = Unset /\ canon_rekey = Unset
IdleAmpang  == /\ fare_csv = Unset /\ station_csv = Unset /\ station_order = Unset
               /\ tidy_rows = Unset /\ matched = Unset /\ unmatched = Unset
IdleMain    == pipeline = Unset /\ src_files = Unset /\ out_files = Unset
IdleBus     == bus_rows = Unset /\ bus_records = Unset
IdleVehicle == vehicle_rows = Unset /\ vehicle_records = Unset
IdleRail    == ridership_rows = Unset /\ ridership_records = Unset

\* Labels of the canonicalizer check: letters that spell the stopword "lrt",
\* an upper-case letter, the punctuation canonical_name rewrites, a blank
\* and a form feed.
CanonAlphabet == {"l", "r", "t", "L", "'", "&", "(", " ", "\f"}
MaxLabelLen == 4

InitCanon ==
    /\ pc = "canon_start"
    /\ canon_label \in SeqsUpTo(CanonAlphabet, MaxLabelLen)
    /\ canon_key = Unset /\ canon_rekey = Unset
    /\ IdleAmpang /\ IdleMain /\ IdleBus /\ IdleVehicle /\ IdleRail

\* The canonical key of the label.
Canonicalize ==
    /\ pc = "canon_start"
    /\ canon_key' = canonical_name(canon_label)
    /\ pc' = "canon_keyed"
    /\ UNCHANGED <<canon_label, canon_rekey, ampang_vars, main_vars, bus_vars, vehicle_vars, rail_vars>>

\* The canonicalizer applied to its own output.
Recanonicalize ==
    /\ pc = "canon_keyed"
    /\ canon_rekey' = canonical_name(canon_key)
    /\ pc' = "canon_done"
    /\ UNCHANGED <<canon_label, canon_key, ampang_vars, main_vars, bus_vars, vehicle_vars, rail_vars>>

NextCanon == Canonicalize \/ Recanonicalize

SpecCanon == InitCanon /\ [][NextCanon]_vars

\* C1: canonical_name is idempotent: canonical_name(canonical_name(x)) equals
\* canonical_name(x) for every label x, also when an apostrophe, '&' or a
\* parenthesis sits inside or next to a stopword.
C1_CanonicalNameIdempotent ==
    pc = "canon_done" => canon_rekey = canon_key

\* The label l'rt: the apostrophe is removed, the stopword lrt is dropped,
\* and the empty key is a fixed point.
C1_Witness ==
    /\ pc = "canon_done"
    /\ canon_label = <<"l", "'", "r", "t">>
    /\ canon_key = <<>>
    /\ canon_rekey = canon_key

(***************************************************************************)
(* Numbers: float(), int() and float comparison as Python computes them.   *)
(*                                                                         *)
(* A finite float is named by its repr: the shortest decimal that reads    *)
(* back as the same double, kept as sign, significant digits d1 d2 .. dn   *)
(* (no leading or trailing zero, none for zero) and exponent, the value    *)
(* being d1.d2..dn * 10^exp.  Two doubles compare as their reprs do.       *)
(* An int is an integer of the checker; the inputs stay within its range.  *)
(***************************************************************************)

\* Body applied to the value of an expression, computed once.
Let(value, Body(_)) == CHOOSE result \in {Body(v) : v \in {value}} : TRUE

DigitChars == {"0", "1", "2", "3", "4", "5", "6", "7", "8", "9"}
OrdZero == Ord("0")
DigitVal(c) == Ord(c) - OrdZero
AllDigits(s) == \A i \in 1..Len(s) : s[i] \in DigitChars

\* Value of a (possibly empty) string of decimal digits.
RECURSIVE DigitsVal(_)
DigitsVal(s) ==
    IF s = <<>> THEN 0
    ELSE 10 * DigitsVal(SubSeq(s, 1, Len(s) - 1)) + DigitVal(s[Len(s)])

\* The digitpart of Python's number syntax: digits, with single underscores
\* allowed between two digits.
DigitPart(p) ==
    /\ p # <<>>
    /\ \A i \in 1..Len(p) : p[i] \in DigitChars \cup {"_"}
    /\ p[1] # "_" /\ p[Len(p)] # "_"
    /\ \A i \in 1..(Len(p) - 1) : ~(p[i] = "_" /\ p[i + 1] = "_")

\* The digits of a digitpart, as numbers.
DigitsOf(p) ==
    LET digits == SelectSeq(p, LAMBDA c : c \in DigitChars)
    IN  [i \in 1..Len(digits) |-> DigitVal(digits[i])]

\* Position of the first character of s that is in chars, or 0.
FirstPos(s, chars) ==
    IF \E i \in 1..Len(s) : s[i] \in chars
    THEN CHOOSE i \in 1..Len(s) : s[i] \in chars /\ \A j \in 1..(i - 1) : s[j] \notin chars
    ELSE 0

\* Float values, a None where a float is expected, and the exceptions a
\* conversion raises.
Num(sign, digits, exp) == [kind |-> "num", sign |-> sign, digits |-> digits, exp |-> exp]
Zero(sign) == Num(sign, <<>>, 0)
NaN == [kind |-> "nan", sign |-> 1, digits |-> <<>>, exp |-> 0]
Inf(sign) == [kind |-> "inf", sign |-> sign, digits |-> <<>>, exp |-> 0]
NoneFloat == [kind |-> "None", sign |-> 1, digits |-> <<>>, exp |-> 0]
ValueError == [kind |-> "ValueError", sign |-> 1, digits |-> <<>>, exp |-> 0]
TypeError == [kind |-> "TypeError", sign |-> 1, digits |-> <<>>, exp |-> 0]
IsFloat(x) == x.kind \in {"num", "nan", "inf"}

(***************************************************************************)
(* Natural numbers of any size, as their decimal digits (most significant  *)
(* first, no leading zero, <<>> for 0).  Doubling and multiplying by five  *)
(* (halving, with one more fraction digit) are digit-local: no carry runs  *)
(* further than one place.                                                 *)
(***************************************************************************)

BigTrim(n) ==
    LET first == FirstPos(n, 1..9)
    IN  IF first = 0 THEN <<>> ELSE SubSeq(n, first, Len(n))

\* The value of a number small enough for a machine integer.
RECURSIVE BigVal(_)
BigVal(n) == IF n = <<>> THEN 0 ELSE 10 * BigVal(SubSeq(n, 1, Len(n) - 1)) + n[Len(n)]

\* 2 * n: a place carries one iff the digit below it is 5 or more.
Double(n) ==
    LET len == Len(n)
    IN  BigTrim([i \in 1..(len + 1) |->
                    ((2 * (IF i = 1 THEN 0 ELSE n[i - 1])) % 10)
                    + (IF i <= len /\ n[i] >= 5 THEN 1 ELSE 0)])

\* 5 * n, that is n / 2 with one more fraction digit: a place receives five
\* iff the digit above it is odd.
Fivefold(n) ==
    LET len == Len(n)
    IN  BigTrim([i \in 1..(len + 1) |->
                    ((IF i <= len THEN n[i] ELSE 0)
                     + 10 * ((IF i = 1 THEN 0 ELSE n[i - 1]) % 2)) \div 2])

\* n + 1
BigInc(n) ==
    LET p == IF \E i \in 1..Len(n) : n[i] # 9
             THEN CHOOSE i \in 1..Len(n) : n[i] # 9 /\ \A j \in (i + 1)..Len(n) : n[j] = 9
             ELSE 0
    IN  IF p = 0 THEN <<1>> \o [i \in 1..Len(n) |-> 0]
        ELSE [i \in 1..Len(n) |-> IF i < p THEN n[i] ELSE IF i = p THEN n[i] + 1 ELSE 0]

\* n - 1 for n > 0
BigDec(n) ==
    LET p == CHOOSE i \in 1..Len(n) : n[i] # 0 /\ \A j \in (i + 1)..Len(n) : n[j] = 0
    IN  BigTrim([i \in 1..Len(n) |-> IF i < p THEN n[i] ELSE IF i = p THEN n[i] - 1 ELSE 9])

BigLess(a, b) ==
    \/ Len(a) < Len(b)
    \/ /\ Len(a) = Len(b)
       /\ \E i \in 1..Len(a) : a[i] < b[i] /\ \A j \in 1..(i - 1) : a[j] = b[j]

Zeros(len) == [i \in 1..len |-> 0]

\* The decimal x = [n, q], of value n / 10^q, times 2^e.
RECURSIVE Scale(_, _)
Scale(x, e) ==
    IF e = 0 THEN x
    ELSE IF e = 1 THEN [n |-> Double(x.n), q |-> x.q]
    ELSE IF e = -1 THEN [n |-> Fivefold(x.n), q |-> x.q + 1]
    ELSE Let(Scale(x, e \div 2), LAMBDA half : Scale(half, e - e \div 2))

\* The float format of the build (sys.float_info): IEEE 754 binary64.
float_info ==
    [mant_dig |-> 53, max_exp |-> 1024, min_exp |-> -1021,
     dig |-> 15, max_10_exp |-> 308, min_10_exp |-> -307]

Two52 == Scale([n |-> <<1>>, q |-> 0], float_info.mant_dig - 1).n
Two53 == Double(Two52)

\* Largest k with a double of the form m * 2^-k: the subnormal step 2^-1074.
MaxScale == float_info.mant_dig - float_info.min_exp
\* Largest binary exponent e of a finite double m * 2^(e - 52), m < 2^53.
MaxExponent == float_info.max_exp - 1

(***************************************************************************)
(* Rounding a positive decimal to the nearest double (ties to even) and    *)
(* naming the double by its repr.                                          *)
(***************************************************************************)

\* The integer part of x = [n, q].
IntPart(x) == IF Len(x.n) <= x.q THEN <<>> ELSE SubSeq(x.n, 1, Len(x.n) - x.q)

\* The q fraction digits of x = [n, q].
FracPart(x) ==
    IF Len(x.n) <= x.q THEN Zeros(x.q - Len(x.n)) \o x.n
    ELSE SubSeq(x.n, Len(x.n) - x.q + 1, Len(x.n))

\* x rounded to the nearest integer, halfway cases to the even one.
RoundHalfEven(x) ==
    LET ip == IntPart(x)
        frac == FracPart(x)
        rest == \E i \in 2..Len(frac) : frac[i] # 0
        up == /\ frac # <<>>
              /\ \/ frac[1] > 5
                 \/ frac[1] = 5 /\ rest
                 \/ frac[1] = 5 /\ ~rest /\ ip # <<>> /\ ip[Len(ip)] % 2 = 1
    IN  IF up THEN BigInc(ip) ELSE ip

\* For x < 2^53: the largest k <= MaxScale with x * 2^k < 2^53, and
\* v = x * 2^k, found from the highest bit of k (step) down.
RECURSIVE ScaleUp(_, _, _)
ScaleUp(x, k, step) ==
    IF step = 0 THEN [v |-> x, k |-> k]
    ELSE IF k + step > MaxScale THEN ScaleUp(x, k, step \div 2)
    ELSE Let(Scale(x, step),
             LAMBDA y : IF BigLess(IntPart(y), Two53) THEN ScaleUp(y, k + step, step \div 2)
                        ELSE ScaleUp(x, k, step \div 2))

\* For x >= 2^53: the largest h with x / 2^h >= 2^53, and v = x / 2^h.
RECURSIVE ScaleDown(_, _, _)
ScaleDown(x, h, step) ==
    IF step = 0 THEN [v |-> x, k |-> -h]
    ELSE Let(Scale(x, -step),
             LAMBDA y : IF BigLess(IntPart(y), Two53) THEN ScaleDown(x, h, step \div 2)
                        ELSE ScaleDown(y, h + step, step \div 2))

\* [v, k] with v = x * 2^k and 2^52 <= v < 2^53, or k = MaxScale and
\* v < 2^52 for an x below the normal range.
ScaleToMantissa(x) ==
    IF BigLess(IntPart(x), Two53) THEN ScaleUp(x, 0, float_info.max_exp)
    ELSE LET down == ScaleDown(x, 0, float_info.max_exp)
         IN  [v |-> Scale(down.v, -1), k |-> down.k - 1]

\* A decimal of as many digits as n: the first cut digits of n (plus bump
\* in the last kept place), zeros after.
Candidate(n, cut, bump) ==
    LET head == SubSeq(n, 1, cut)
    IN  (IF bump = 0 THEN head ELSE BigInc(head)) \o Zeros(Len(n) - cut)

\* The shortest decimal in the rounding interval [lo, hi] of d (its ends
\* included iff closed), the nearest to d among the shortest: first the
\* decimals of 1 significant digit next to d, then of 2, and so on.
RECURSIVE Shortest(_, _, _, _, _)
Shortest(d, lo, hi, closed, cut) ==
    IF cut >= Len(d) THEN d
    ELSE LET down == Candidate(d, cut, 0)
             up == Candidate(d, cut, 1)
             down_in == IF closed THEN ~BigLess(down, lo) ELSE BigLess(lo, down)
             up_in == IF closed THEN ~BigLess(hi, up) ELSE BigLess(up, hi)
             twice == Double(d)
             sum == BigInc(Double(SubSeq(d, 1, cut))) \o Zeros(Len(d) - cut)
         IN  IF down_in /\ up_in
             THEN (IF BigLess(twice, sum) THEN down
                   ELSE IF BigLess(sum, twice) THEN up
                   ELSE IF d[cut] % 2 = 0 THEN down ELSE up)
             ELSE IF down_in THEN down
             ELSE IF up_in THEN up
             ELSE Shortest(d, lo, hi, closed, cut + 1)

StripTrailingZeros(n) ==
    IF \E i \in 1..Len(n) : n[i] # 0
    THEN SubSeq(n, 1, CHOOSE i \in 1..Len(n) : n[i] # 0 /\ \A j \in (i + 1)..Len(n) : n[j] = 0)
    ELSE <<>>

\* The repr of the decimal short / 10^q.
ReprOfDigits(sign, short, q) == Num(sign, StripTrailingZeros(short), Len(short) - 1 - q)

\* The repr of the double d whose rounding interval is [lo, hi].
ReprOfInterval(sign, d, lo, hi, closed) ==
    ReprOfDigits(sign, Shortest(d.n, lo.n, hi.n, closed, 1), d.q)

\* The repr of the double m * 2^-k, m4 = 4m: the double is m4 and its
\* rounding interval [m4 - 2, m4 + 2] in units of 2^-(k + 2); the interval
\* ends at m4 - 1 below a power of two (narrow), where the doubles are twice
\* as dense, and includes its ends iff m is even.
ReprOfMantissa(sign, m, m4, k, narrow) ==
    ReprOfInterval(sign,
                   Scale([n |-> m4, q |-> 0], -(k + 2)),
                   Scale([n |-> IF narrow THEN BigDec(m4) ELSE BigDec(BigDec(m4)), q |-> 0],
                         -(k + 2)),
                   Scale([n |-> BigInc(BigInc(m4)), q |-> 0], -(k + 2)),
                   m[Len(m)] % 2 = 0)

\* The double m * 2^-k: zero, an infinity beyond the largest binary
\* exponent, or a finite double.
ReprOfDouble(sign, m, k) ==
    IF m = <<>> THEN Zero(sign)
    ELSE IF float_info.mant_dig - 1 - k > MaxExponent THEN Inf(sign)
    ELSE ReprOfMantissa(sign, m, Double(Double(m)), k, m = Two52 /\ k < MaxScale)

\* The double nearest to v * 2^-k, v rounded to 53 bits: a mantissa rounded
\* up to 2^53 is 2^52 with a unit twice as large.
ReprOfScaled(sign, v, k) ==
    ReprOfDouble(sign, IF v = Two53 THEN Two52 ELSE v, IF v = Two53 THEN k - 1 ELSE k)

\* The double nearest to s.v * 2^-s.k, s.v scaled to 53 bits and a fraction.
RoundOf(sign, s) == ReprOfScaled(sign, RoundHalfEven(s.v), s.k)

\* The double nearest to digits[1].digits[2..] * 10^exp (digits non-empty,
\* no leading zero), named by its repr; an infinity from the midpoint
\* beyond the largest double on; zero up to half the smallest double.
RoundToDouble(sign, digits, exp) ==
    LET shift == exp - (Len(digits) - 1)
    IN  RoundOf(sign, ScaleToMantissa(IF shift >= 0 THEN [n |-> digits \o Zeros(shift), q |-> 0]
                                      ELSE [n |-> digits, q |-> -shift]))

\* The float a decimal with the given significant digits (leading and
\* trailing zeros allowed) reads as, lead being the exponent of digits[1].
\* Decimal exponents the doubles span: 10^309 is beyond the largest double
\* (1.8 * 10^308), 10^-324 below half the smallest (4.9 * 10^-324), and
\* every decimal of up to 15 significant digits (DBL_DIG) from 10^-307 to
\* 10^308 is the repr of the double nearest to it.
FloatOfDecimal(sign, alldigits, lead) ==
    LET trimmed == BigTrim(alldigits)
        digits == StripTrailingZeros(trimmed)
        exp == lead - (Len(alldigits) - Len(trimmed))
    IN  IF digits = <<>> THEN Zero(sign)
        ELSE IF exp >= float_info.max_10_exp + 1 THEN Inf(sign)
        ELSE IF exp < float_info.min_10_exp - (float_info.dig + 2) THEN Zero(sign)
        ELSE IF /\ Len(digits) <= float_info.dig
                /\ exp >= float_info.min_10_exp /\ exp < float_info.max_10_exp
        THEN Num(sign, digits, exp)
        ELSE RoundToDouble(sign, digits, exp)

\* The value of an exponent "e[sign]digitpart" (without the e), cut off at
\* +-10^6, out of every float's range.
ExponentVal(e) ==
    LET signed == e # <<>> /\ e[1] \in {"+", "-"}
        body == IF signed THEN Tail(e) ELSE e
        digits == BigTrim(DigitsOf(body))
        mag == IF Len(digits) > 6 THEN 10 ^ 6 ELSE BigVal(digits)
    IN  IF signed /\ e[1] = "-" THEN -mag ELSE mag

\* Is e "[sign]digitpart"?
ExponentOk(e) ==
    LET signed == e # <<>> /\ e[1] \in {"+", "-"}
    IN  DigitPart(IF signed THEN Tail(e) ELSE e)

\* An unsigned decimal literal of float(): digitpart [. [digitpart]] or
\* . digitpart, then optionally e or E, a sign and a digitpart.
ParseDecimal(sign, body) ==
    LET epos == FirstPos(body, {"e", "E"})
        mant == IF epos = 0 THEN body ELSE SubSeq(body, 1, epos - 1)
        expo == IF epos = 0 THEN <<"0">> ELSE SubSeq(body, epos + 1, Len(body))
        dot == FirstPos(mant, {"."})
        ipart == IF dot = 0 THEN mant ELSE SubSeq(mant, 1, dot - 1)
        frac == IF dot = 0 THEN <<>> ELSE SubSeq(mant, dot + 1, Len(mant))
    IN  IF /\ ipart = <<>> \/ DigitPart(ipart)
           /\ frac = <<>> \/ DigitPart(frac)
           /\ ipart # <<>> \/ frac # <<>>
           /\ ExponentOk(expo)
        THEN FloatOfDecimal(sign, DigitsOf(ipart) \o DigitsOf(frac),
                            Len(DigitsOf(ipart)) - 1 + ExponentVal(expo))
        ELSE ValueError

\* The float of a signed literal, word being its body in lower case.
FloatOfSigned(sign, body, word) ==
    IF word = <<"n", "a", "n">> THEN NaN
    ELSE IF word \in {<<"i", "n", "f">>, <<"i", "n", "f", "i", "n", "i", "t", "y">>}
         THEN Inf(sign)
    ELSE ParseDecimal(sign, body)

\* The literal float() and int() read from a str s: s without the whitespace
\* around it.  The separators U+001C..U+001F are whitespace to str.strip()
\* and not to float() and int(), which keep them and then reject the
\* literal.
NumericStrip(s) ==
    LET kept == {i \in 1..Len(s) :
                     s[i] \notin Whitespace \ {"U+001C", "U+001D", "U+001E", "U+001F"}}
    IN  IF kept = {} THEN <<>>
        ELSE SubSeq(s, CHOOSE i \in kept : \A j \in kept : i <= j,
                       CHOOSE i \in kept : \A j \in kept : j <= i)

\* float(s) for a str s: surrounding whitespace is ignored, then an optional
\* sign, then a decimal literal, "nan", "inf" or "infinity" in any case.
float(s) ==
    LET t == NumericStrip(s)
        signed == t # <<>> /\ t[1] \in {"+", "-"}
        body == IF signed THEN Tail(t) ELSE t
    IN  FloatOfSigned(IF signed /\ t[1] = "-" THEN -1 ELSE 1, body, lower(body))

\* int(s) for a str s: surrounding whitespace is ignored, then an optional
\* sign and a digitpart.
int(s) ==
    LET t == NumericStrip(s)
        signed == t # <<>> /\ t[1] \in {"+", "-"}
        sign == IF signed /\ t[1] = "-" THEN -1 ELSE 1
        body == IF signed THEN Tail(t) ELSE t
    IN  IF DigitPart(body)
        THEN [kind |-> "int", val |-> sign * BigVal(BigTrim(DigitsOf(body)))]
        ELSE [kind |-> "ValueError", val |-> 0]

\* a < b on finite floats.
DigitsLess(a, b) ==
    \E i \in 1..Len(b) :
        /\ \A j \in 1..(i - 1) : j <= Len(a) /\ a[j] = b[j]
        /\ i > Len(a) \/ a[i] < b[i]

MagnitudeLess(a, b) ==
    \/ a.digits = <<>> /\ b.digits # <<>>
    \/ /\ a.digits # <<>> /\ b.digits # <<>>
       /\ \/ a.exp < b.exp
          \/ a.exp = b.exp /\ DigitsLess(a.digits, b.digits)

NumLess(a, b) ==
    LET sa == IF a.digits = <<>> THEN 0 ELSE a.sign
        sb == IF b.digits = <<>> THEN 0 ELSE b.sign
    IN  \/ sa < sb
        \/ sa = 1 /\ sb = 1 /\ MagnitudeLess(a, b)
        \/ sa = -1 /\ sb = -1 /\ MagnitudeLess(b, a)

\* a <= b on floats: false as soon as one side is nan.
FloatLe(a, b) ==
    /\ a.kind # "nan" /\ b.kind # "nan"
    /\ \/ a.kind = "num" /\ b.kind = "num" /\ ~NumLess(b, a)
       \/ a.kind = "inf" /\ a.sign < 0
       \/ b.kind = "inf" /\ b.sign > 0

\* The integer part of a finite float, towards zero (the digits of the repr
\* are those of the float itself below 2^53).
Truncated(x) ==
    IF x.digits = <<>> \/ x.exp < 0 THEN 0
    ELSE LET shown == IF Len(x.digits) >= x.exp + 1 THEN SubSeq(x.digits, 1, x.exp + 1)
                      ELSE x.digits \o Zeros(x.exp + 1 - Len(x.digits))
         IN  x.sign * BigVal(shown)

Min(a, b) == IF a <= b THEN a ELSE b
(***************************************************************************)
(* prepare_ampang_data.py: read_fare_matrix                                *)
(*                                                                         *)
(* A CSV file is the sequence of rows csv.reader yields, each row the      *)
(* sequence of its cells.                                                  *)
(***************************************************************************)

\* header[1:] with every cell stripped (line 36).
Destinations(header) ==
    [j \in 1..(Len(header) - 1) |-> strip(header[j + 1])]

\* A variant of the cell test that also drops a fare of zero.
CellFare_skip_zero(dest, value) ==
    IF strip(dest) = <<>> \/ value = <<>> THEN ValueError
    ELSE LET fare == float(value)
         IN  IF fare.kind = "num" /\ fare.digits = <<>> THEN ValueError ELSE fare

\* Lines 51-58: the fare of one cell, or ValueError when the cell is skipped
\* (blank destination, empty cell, or a cell float() rejects).
CellFare(dest, value) ==
    IF strip(dest) = <<>> \/ value = <<>> THEN ValueError
    ELSE float(value)

\* Lines 50-61: the records one data row contributes, in column order.
\* zip() stops at the shorter of destinations and row[1:].
\* FareRecords is what one cell contributes, fare being its CellFare.
FareRecords(origin, dest, fare) ==
    IF fare = ValueError THEN <<>>
    ELSE << [origin |-> origin, destination |-> strip(dest), fare |-> fare] >>

RECURSIVE RowRecords(_, _, _, _)
RowRecords(origin, destinations, row, j) ==
    IF j > Min(Len(destinations), Len(row) - 1) THEN <<>>
    ELSE FareRecords(origin, destinations[j], CellFare(destinations[j], row[j + 1]))
         \o RowRecords(origin, destinations, row, j + 1)

\* A variant that appends without the membership test.
AppendIfNew_always(list, name) == Append(list, name)

\* Lines 47-48 and 65-66: append name unless the list has it.
AppendIfNew(list, name) ==
    IF InList(name, list) THEN list ELSE Append(list, name)

\* Lines 40-61: the loop over the data rows.
RECURSIVE ReadRows(_, _, _, _)
ReadRows(rows, destinations, order, tidy) ==
    IF rows = <<>> THEN [station_order |-> order, tidy_rows |-> tidy]
    ELSE LET row == Head(rows)
             origin == IF row = <<>> THEN <<>> ELSE strip(row[1])
         IN  IF row = <<>> \/ origin = <<>>
             THEN ReadRows(Tail(rows), destinations, order, tidy)
             ELSE ReadRows(Tail(rows), destinations,
                           AppendIfNew(order, origin),
                           tidy \o RowRecords(origin, destinations, row, 1))

\* Lines 63-66: header destinations that no row gave as an origin.
RECURSIVE AppendHeaderOnly(_, _)
AppendHeaderOnly(order, destinations) ==
    IF destinations = <<>> THEN order
    ELSE AppendHeaderOnly(
             IF Head(destinations) # <<>> THEN AppendIfNew(order, Head(destinations))
             ELSE order,
             Tail(destinations))

\* read_fare_matrix(path): raises ValueError on a file without a first row.
read_fare_matrix(csv) ==
    IF csv = <<>>
    THEN [raised |-> TRUE, station_order |-> <<>>, tidy_rows |-> <<>>]
    ELSE LET destinations == Destinations(Head(csv))
             body == ReadRows(Tail(csv), destinations, <<>>, <<>>)
         IN  [raised |-> FALSE,
              station_order |-> AppendHeaderOnly(body.station_order, destinations),
              tidy_rows |-> body.tidy_rows]

\* Station names of the fare matrix checks.  The header spells one of them
\* with surrounding whitespace, the origin column spells the other one so.
KLCC == <<"K", "L", "C", "C">>
AmpangPark == <<"A", "m", "p", "a", "n", "g", " ", "P", "a", "r", "k">>
Padded(name) == <<"\f">> \o name \o <<" ">>
FareHeaderNames == {KLCC, Padded(AmpangPark), <<>>}
FareOrigins == {Padded(KLCC), AmpangPark}

\* Cells: empty, the zero fare, a fare, a malformed entry, a fare in
\* exponent notation, one with a digit-group underscore, one with five
\* decimals.
FareCells ==
    { <<>>, <<"0">>, <<"1", ".", "2", "0">>, <<"N", "/", "A">>
    , <<"1", "e", "3">>, <<"1", "_", "0", "0", "0">>, <<"1", ".", "2", "3", "4", "5", "6">> }

\* Header rows: an empty corner cell followed by up to two destinations.
FareHeaders ==
    {<< <<>> >>} \cup {<< <<>>, a >> : a \in FareHeaderNames}
                 \cup {<< <<>>, a, b >> : a \in FareHeaderNames, b \in FareHeaderNames}

\* Data rows under a header with n destinations: the empty row csv.reader
\* yields for a blank line, a row whose origin cell is blank, or an origin
\* followed by n cells.
FareDataRows(n) ==
    {<<>>} \cup {<< <<" ">> >> \o [j \in 1..n |-> <<"1", ".", "2", "0">>]}
           \cup {<<o>> \o c : o \in FareOrigins, c \in [1..n -> FareCells]}

MaxFareRows == 2

InitFare ==
    /\ pc = "fare_start"
    \* Fare.csv: empty, or a header and up to MaxFareRows data rows.
    /\ \/ fare_csv = <<>>
       \/ \E h \in FareHeaders : \E n \in 0..MaxFareRows :
            \E rs \in [1..n -> FareDataRows(Len(h) - 1)] : fare_csv = <<h>> \o rs
    /\ station_csv = Unset /\ station_order = Unset /\ tidy_rows = Unset
    /\ matched = Unset /\ unmatched = Unset
    /\ IdleCanon /\ IdleMain /\ IdleBus /\ IdleVehicle /\ IdleRail

\* station_order, tidy_rows = read_fare_matrix(FARE_PATH)
ReadFareMatrix ==
    /\ pc = "fare_start"
    /\ \E r \in {read_fare_matrix(fare_csv)} :
           IF r.raised
           THEN pc' = "fare_raised" /\ UNCHANGED <<station_order, tidy_rows>>
           ELSE /\ pc' = "fare_done"
                /\ station_order' = r.station_order
                /\ tidy_rows' = r.tidy_rows
    /\ UNCHANGED <<fare_csv, station_csv, matched, unmatched,
                   canon_vars, main_vars, bus_vars, vehicle_vars, rail_vars>>

NextFare == ReadFareMatrix

SpecFare == InitFare /\ [][NextFare]_vars

\* The data cells of Fare.csv as <<row index, column index>> pairs; row 1 is
\* the header, column 1 the origin column.
C5_Cells ==
    {<<r, j>> \in (2..Len(fare_csv)) \X (2..Len(fare_csv[1])) : j <= Len(fare_csv[r])}

\* The number Python reads from a cell of FareCells: 0.0, 1.2, 1000.0 (for
\* 1e3 and for 1_000) and 1.23456; no number from the empty cell and N/A.
C5_CellValue(cell) ==
    CASE cell = <<"0">> -> Zero(1)
      [] cell = <<"1", ".", "2", "0">> -> Num(1, <<1, 2>>, 0)
      [] cell = <<"1", "e", "3">> -> Num(1, <<1>>, 3)
      [] cell = <<"1", "_", "0", "0", "0">> -> Num(1, <<1>>, 3)
      [] cell = <<"1", ".", "2", "3", "4", "5", "6">> -> Num(1, <<1, 2, 3, 4, 5, 6>>, 0)
      [] OTHER -> NoneFloat

\* A cell that carries a fare: its row has a non-blank origin, its column a
\* non-blank destination, and the cell is non-blank and parses as a number.
C5_Numeric(r, j) ==
    /\ strip(fare_csv[r][1]) # <<>>
    /\ strip(fare_csv[1][j]) # <<>>
    /\ strip(fare_csv[r][j]) # <<>>
    /\ C5_CellValue(fare_csv[r][j]) # NoneFloat

C5_NumericCells == {c \in C5_Cells : C5_Numeric(c[1], c[2])}

\* 1-based position of a numeric cell in row-major order.
C5_Position(r, j) ==
    1 + Cardinality({c \in C5_NumericCells : c[1] < r \/ (c[1] = r /\ c[2] < j)})

\* C5: read_fare_matrix emits exactly one FareRecord for every non-blank,
\* numeric cell under a destination column of a row with a non-blank origin,
\* and none for any other cell; the record carries the stripped origin and
\* destination and the parsed cell value; a "0" cell is recorded; a malformed
\* cell is skipped without affecting other cells; records are in row-major
\* source order.
C5_OneRecordPerNumericCell ==
    pc = "fare_done" =>
        /\ Len(tidy_rows) = Cardinality(C5_NumericCells)
        /\ \A c \in C5_NumericCells :
               tidy_rows[C5_Position(c[1], c[2])] =
                   [origin |-> strip(fare_csv[c[1]][1]),
                    destination |-> strip(fare_csv[1][c[2]]),
                    fare |-> C5_CellValue(fare_csv[c[1]][c[2]])]

\* The spec's example row, two columns wide, followed by a row with a
\* malformed cell and a fare of five decimals: the "0" self-fare and the
\* 1.20 fare are recorded in column order, the malformed cell is skipped
\* and the cell after it is recorded in full.
C5_Witness ==
    /\ pc = "fare_done"
    /\ fare_csv = << << <<>>, KLCC, Padded(AmpangPark) >>,
                     << Padded(KLCC), <<"0">>, <<"1", ".", "2", "0">> >>,
                     << AmpangPark, <<"N", "/", "A">>, <<"1", ".", "2", "3", "4", "5", "6">> >> >>
    /\ tidy_rows = << [origin |-> KLCC, destination |-> KLCC, fare |-> Zero(1)],
                      [origin |-> KLCC, destination |-> AmpangPark, fare |-> Num(1, <<1, 2>>, 0)],
                      [origin |-> AmpangPark, destination |-> AmpangPark,
                       fare |-> Num(1, <<1, 2, 3, 4, 5, 6>>, 0)] >>

\* Rows that name an origin, and the stripped names.
C10_OriginRows == {r \in 2..Len(fare_csv) : fare_csv[r] # <<>> /\ strip(fare_csv[r][1]) # <<>>}
C10_Origins == {strip(fare_csv[r][1]) : r \in C10_OriginRows}
C10_HeaderCols == {j \in 2..Len(fare_csv[1]) : strip(fare_csv[1][j]) # <<>>}
C10_HeaderOnly == {strip(fare_csv[1][j]) : j \in C10_HeaderCols} \ C10_Origins
C10_FirstRow(name) ==
    CHOOSE r \in C10_OriginRows :
        /\ strip(fare_csv[r][1]) = name
        /\ \A q \in C10_OriginRows : strip(fare_csv[q][1]) = name => r <= q
C10_FirstCol(name) ==
    CHOOSE j \in C10_HeaderCols :
        /\ strip(fare_csv[1][j]) = name
        /\ \A q \in C10_HeaderCols : strip(fare_csv[1][q]) = name => j <= q

\* C10: the station list of read_fare_matrix has no duplicates and holds
\* every non-blank origin in first-occurrence order, followed by every
\* non-blank header destination that is no origin, in header order; every
\* such station is in the list exactly once and nothing else is.
C10_StationOrderDistinctOriginsThenHeader ==
    pc = "fare_done" =>
        LET n == Len(station_order)
            k == Cardinality(C10_Origins)
        IN  /\ \A i, j \in 1..n : i # j => station_order[i] # station_order[j]
            /\ {station_order[i] : i \in 1..n} = C10_Origins \cup C10_HeaderOnly
            /\ \A i \in 1..n : i <= k <=> station_order[i] \in C10_Origins
            /\ \A i, j \in 1..n :
                   i < j /\ j <= k =>
                       C10_FirstRow(station_order[i]) < C10_FirstRow(station_order[j])
            /\ \A i, j \in 1..n :
                   k < i /\ i < j =>
                       C10_FirstCol(station_order[i]) < C10_FirstCol(station_order[j])

\* An origin repeated on two rows that is also a header destination, and a
\* header-only destination: each is listed once, the origin first.
C10_Witness ==
    /\ pc = "fare_done"
    /\ fare_csv = << << <<>>, KLCC, Padded(AmpangPark) >>,
                     << AmpangPark, <<>>, <<"0">> >>,
                     << AmpangPark, <<"0">>, <<>> >> >>
    /\ station_order = <<AmpangPark, KLCC>>

(***************************************************************************)
(* prepare_ampang_data.py: build_station_lookup, match_station_locations   *)
(*                                                                         *)
(* lrt-malaysia.csv is read through csv.DictReader; a registry row is the  *)
(* dict of one of its lines.  A dict of the script is a set of             *)
(* <<key, value...>> tuples.                                               *)
(***************************************************************************)

MANUAL_ALIASES ==
    { <<<<"m","a","l","u","r","i"," ","s","b","k">>, <<"m","a","l","u","r","i">>>>
    , <<<<"p","a","s","a","r"," ","s","e","n","i"," ","k","j","l">>, <<"p","a","s","a","r"," ","s","e","n","i">>>>
    , <<<<"p","a","s","a","r"," ","s","e","n","i"," ","s","b","k">>, <<"p","a","s","a","r"," ","s","e","n","i">>>>
    , <<<<"m","a","s","j","i","d"," ","j","a","m","e","k"," ","k","j","l">>, <<"m","a","s","j","i","d"," ","j","a","m","e","k">>>>
    , <<<<"m","a","s","j","i","d"," ","j","a","m","e","k"," ","s","b","k">>, <<"m","a","s","j","i","d"," ","j","a","m","e","k">>>>
    , <<<<"p","u","t","r","a"," ","h","e","i","g","h","t","s"," ","k","j","l">>, <<"p","u","t","r","a"," ","h","e","i","g","h","t","s">>>>
    , <<<<"p","a","s","a","r"," ","s","e","n","i">>, <<"p","a","s","a","r"," ","s","e","n","i">>>>
    , <<<<"k","a","j","a","n","g">>, <<"k","a","j","a","n","g">>>>
    }

MANUAL_COORDINATES ==
    { <<<<"k","l"," ","s","e","n","t","r","a","l">>, Num(1, <<3, 1, 3, 4, 6>>, 0), Num(1, <<1, 0, 1, 6, 8, 6, 5>>, 2)>>
    , <<<<"b","a","n","g","s","a","r">>, Num(1, <<3, 1, 2, 8, 2>>, 0), Num(1, <<1, 0, 1, 6, 7, 9>>, 2)>>
    , <<<<"t","a","m","a","n"," ","p","a","r","a","m","o","u","n","t">>, Num(1, <<3, 1, 0, 7, 5>>, 0), Num(1, <<1, 0, 1, 6, 2, 2, 2>>, 2)>>
    , <<<<"t","a","m","a","n"," ","b","a","h","a","g","i","a">>, Num(1, <<3, 1, 1, 1, 6>>, 0), Num(1, <<1, 0, 1, 6, 1, 4, 4>>, 2)>>
    , <<<<"j","a","y","a">>, Num(1, <<3, 1, 0, 9, 3>>, 0), Num(1, <<1, 0, 1, 6, 1, 5, 1>>, 2)>>
    , <<<<"s","s"," ","1","5">>, Num(1, <<3, 0, 8, 1, 7>>, 0), Num(1, <<1, 0, 1, 5, 8, 6, 3>>, 2)>>
    , <<<<"s","s"," ","1","8">>, Num(1, <<3, 0, 7, 4, 4>>, 0), Num(1, <<1, 0, 1, 5, 9, 3, 1>>, 2)>>
    , <<<<"u","s","j"," ","7">>, Num(1, <<3, 0, 4, 8, 2>>, 0), Num(1, <<1, 0, 1, 5, 9, 3, 4>>, 2)>>
    , <<<<"u","s","j"," ","2","1">>, Num(1, <<3, 0, 2, 7, 9>>, 0), Num(1, <<1, 0, 1, 5, 8, 5, 3>>, 2)>>
    , <<<<"s","u","n","g","a","i"," ","b","u","l","o","h">>, Num(1, <<3, 1, 9, 7, 9>>, 0), Num(1, <<1, 0, 1, 5, 7, 7, 1>>, 2)>>
    , <<<<"k","a","m","p","u","n","g"," ","s","e","l","a","m","a","t">>, Num(1, <<3, 2, 1, 0, 6>>, 0), Num(1, <<1, 0, 1, 5, 7, 0, 3>>, 2)>>
    , <<<<"k","w","a","s","a"," ","d","a","m","a","n","s","a","r","a">>, Num(1, <<3, 1, 8, 0, 4>>, 0), Num(1, <<1, 0, 1, 5, 6, 6, 6>>, 2)>>
    , <<<<"k","w","a","s","a"," ","s","e","n","t","r","a","l">>, Num(1, <<3, 1, 7, 3, 5>>, 0), Num(1, <<1, 0, 1, 5, 7, 3, 2>>, 2)>>
    , <<<<"k","o","t","a"," ","d","a","m","a","n","s","a","r","a">>, Num(1, <<3, 1, 5, 7, 5>>, 0), Num(1, <<1, 0, 1, 5, 8, 5, 3>>, 2)>>
    , <<<<"s","u","r","i","a","n">>, Num(1, <<3, 1, 4, 5, 7>>, 0), Num(1, <<1, 0, 1, 5, 9, 3, 7>>, 2)>>
    , <<<<"m","u","t","i","a","r","a"," ","d","a","m","a","n","s","a","r","a">>, Num(1, <<3, 1, 4, 4, 3>>, 0), Num(1, <<1, 0, 1, 6, 0, 9, 6>>, 2)>>
    , <<<<"b","a","n","d","a","r"," ","u","t","a","m","a">>, Num(1, <<3, 1, 4, 6>>, 0), Num(1, <<1, 0, 1, 6, 1, 5, 7>>, 2)>>
    , <<<<"t","t","d","i">>, Num(1, <<3, 1, 3, 7, 4>>, 0), Num(1, <<1, 0, 1, 6, 2, 7, 8>>, 2)>>
    , <<<<"p","h","i","l","e","o"," ","d","a","m","a","n","s","a","r","a">>, Num(1, <<3, 1, 3, 1, 3>>, 0), Num(1, <<1, 0, 1, 6, 4, 0, 8>>, 2)>>
    , <<<<"p","u","s","a","t"," ","b","a","n","d","a","r"," ","d","a","m","a","n","s","a","r","a">>, Num(1, <<3, 1, 4, 8, 5>>, 0), Num(1, <<1, 0, 1, 6, 6, 3, 2>>, 2)>>
    , <<<<"s","e","m","a","n","t","a","n">>, Num(1, <<3, 1, 5, 4>>, 0), Num(1, <<1, 0, 1, 6, 6, 1>>, 2)>>
    , <<<<"m","u","z","i","u","m"," ","n","e","g","a","r","a">>, Num(1, <<3, 1, 2, 7, 7>>, 0), Num(1, <<1, 0, 1, 6, 8, 7, 6>>, 2)>>
    , <<<<"m","e","r","d","e","k","a">>, Num(1, <<3, 1, 4, 1, 1>>, 0), Num(1, <<1, 0, 1, 6, 9, 8, 3>>, 2)>>
    , <<<<"b","u","k","i","t"," ","b","i","n","t","a","n","g">>, Num(1, <<3, 1, 4, 7>>, 0), Num(1, <<1, 0, 1, 7, 0, 8, 2>>, 2)>>
    , <<<<"t","u","n"," ","r","a","z","a","k"," ","e","x","c","h","a","n","g","e"," ","t","r","x">>, Num(1, <<3, 1, 3, 9, 9>>, 0), Num(1, <<1, 0, 1, 7, 1, 8, 8>>, 2)>>
    , <<<<"c","o","c","h","r","a","n","e">>, Num(1, <<3, 1, 3, 1, 7>>, 0), Num(1, <<1, 0, 1, 7, 3, 2, 9>>, 2)>>
    , <<<<"t","a","m","a","n"," ","p","e","r","t","a","m","a">>, Num(1, <<3, 1, 1, 4>>, 0), Num(1, <<1, 0, 1, 7, 4, 1, 9>>, 2)>>
    , <<<<"t","a","m","a","n"," ","m","i","d","a","h">>, Num(1, <<3, 1, 0, 6, 6>>, 0), Num(1, <<1, 0, 1, 7, 4, 4, 1>>, 2)>>
    , <<<<"t","a","m","a","n"," ","m","u","t","i","a","r","a">>, Num(1, <<3, 0, 9, 5, 6>>, 0), Num(1, <<1, 0, 1, 7, 5, 0, 6>>, 2)>>
    , <<<<"t","a","m","a","n"," ","c","o","n","n","a","u","g","h","t">>, Num(1, <<3, 0, 8, 4, 7>>, 0), Num(1, <<1, 0, 1, 7, 5, 4, 2>>, 2)>>
    , <<<<"t","a","m","a","n"," ","s","u","n","t","e","x">>, Num(1, <<3, 0, 7, 0, 5>>, 0), Num(1, <<1, 0, 1, 7, 7, 1, 2>>, 2)>>
    , <<<<"s","r","i"," ","r","a","y","a">>, Num(1, <<3, 0, 6, 0, 8>>, 0), Num(1, <<1, 0, 1, 7, 8, 1, 3>>, 2)>>
    , <<<<"b","a","n","d","a","r"," ","t","u","n"," ","h","u","s","s","e","i","n"," ","o","n","n">>, Num(1, <<3, 0, 4, 5, 1>>, 0), Num(1, <<1, 0, 1, 7, 8, 7, 1>>, 2)>>
    , <<<<"b","a","t","u"," ","1","1"," ","c","h","e","r","a","s">>, Num(1, <<3, 0, 3, 4, 8>>, 0), Num(1, <<1, 0, 1, 7, 9, 0, 4>>, 2)>>
    , <<<<"b","u","k","i","t"," ","d","u","k","u","n","g">>, Num(1, <<3, 0, 2, 4, 6>>, 0), Num(1, <<1, 0, 1, 7, 9, 3, 3>>, 2)>>
    , <<<<"s","u","n","g","a","i"," ","j","e","r","n","i","h">>, Num(1, <<3, 0, 1, 4, 8>>, 0), Num(1, <<1, 0, 1, 7, 9, 3, 6>>, 2)>>
    , <<<<"s","t","a","d","i","u","m"," ","k","a","j","a","n","g">>, Num(1, <<3, 0, 0, 8, 7>>, 0), Num(1, <<1, 0, 1, 7, 9, 3, 8>>, 2)>>
    , <<<<"k","a","j","a","n","g">>, Num(1, <<3, 0, 0, 3, 3>>, 0), Num(1, <<1, 0, 1, 7, 8, 9, 6>>, 2)>>
    }

\* A variant that validates the latitude only.
InBoundingBox_lat_only(lat, lon) ==
    FloatLe(Num(1, <<1>>, 0), lat) /\ FloatLe(lat, Num(1, <<7, 5>>, 0))

\* Line 205: 1.0 <= lat <= 7.5 and 99.0 <= lon <= 105.0
InBoundingBox(lat, lon) ==
    /\ FloatLe(Num(1, <<1>>, 0), lat) /\ FloatLe(lat, Num(1, <<7, 5>>, 0))
    /\ FloatLe(Num(1, <<9, 9>>, 1), lon) /\ FloatLe(lon, Num(1, <<1, 0, 5>>, 2))

\* build_station_lookup: the first row of each non-empty canonical key wins
\* (dict.setdefault).  A row too short for its station_name column holds
\* None there, and None.strip() raises AttributeError (line 108); a file
\* without that column gives "" for every row.
RECURSIVE build_station_lookup_from(_, _)
build_station_lookup_from(rows, lookup) ==
    IF rows = <<>> THEN [raised |-> FALSE, lookup |-> lookup]
    ELSE LET row == Head(rows)
             cell == RowGetOr(row, "station_name", <<>>)
             name == strip(cell)
             k == canonical_name(name)
         IN  IF cell = NoneStr THEN [raised |-> TRUE, lookup |-> lookup]
             ELSE build_station_lookup_from(
                      Tail(rows),
                      IF name = <<>> \/ k = <<>> \/ DictHas(lookup, k) THEN lookup
                      ELSE lookup \cup {<<k, row>>})

build_station_lookup(rows) == build_station_lookup_from(rows, {})

\* lookup.get(k): the row, or found = FALSE for None.
LookupGet(lookup, k) ==
    IF DictHas(lookup, k) THEN [found |-> TRUE, row |-> DictGet(lookup, k)[2]]
    ELSE [found |-> FALSE, row |-> <<>>]

\* Lines 183-187: the registry row of a key: through MANUAL_ALIASES when the
\* key is an alias, by the key itself otherwise.
RegistryRow(lookup, k) ==
    IF DictHas(MANUAL_ALIASES, k)
    THEN LookupGet(lookup, DictGet(MANUAL_ALIASES, k)[2])
    ELSE LookupGet(lookup, k)

\* Line 189: MANUAL_COORDINATES.get(key), as a pair of floats or None.
NoCoords == <<NoneFloat, NoneFloat>>
ManualCoords(k) ==
    IF DictHas(MANUAL_COORDINATES, k)
    THEN <<DictGet(MANUAL_COORDINATES, k)[2], DictGet(MANUAL_COORDINATES, k)[3]>>
    ELSE NoCoords

\* float(cell) for a cell of a DictReader row: TypeError for None.
FloatOfCell(cell) == IF cell = NoneStr THEN TypeError ELSE float(cell)

\* Lines 197-206: the coordinates a registry row gives: both parsed and inside
\* the bounding box, or both None.  row["latitude"] and row["longitude"]
\* raise KeyError, which line 201 does not catch, when the file has no such
\* column; the longitude is not looked at once the latitude failed.
CoordsOfPair(lat, lon) ==
    IF ~IsFloat(lon) \/ ~InBoundingBox(lat, lon)
    THEN [raised |-> FALSE, coords |-> NoCoords]
    ELSE [raised |-> FALSE, coords |-> <<lat, lon>>]

CoordsOfLatitude(row, lat) ==
    IF ~IsFloat(lat) THEN [raised |-> FALSE, coords |-> NoCoords]
    ELSE IF "longitude" \notin DOMAIN row THEN [raised |-> TRUE, coords |-> NoCoords]
    ELSE CoordsOfPair(lat, FloatOfCell(row["longitude"]))

RegistryCoords(row) ==
    IF "latitude" \notin DOMAIN row THEN [raised |-> TRUE, coords |-> NoCoords]
    ELSE CoordsOfLatitude(row, FloatOfCell(row["latitude"]))

\* Lines 191-213: the coordinates of a station, or NoCoords when it is
\* unmatched: the registry row's (reg) if valid, else the manual table's.
ManualUnlessValid(reg, manual_coords) ==
    IF ~reg.raised /\ reg.coords = NoCoords /\ manual_coords # NoCoords
    THEN [raised |-> FALSE, coords |-> manual_coords]
    ELSE reg

ResolveCoords(hit, manual_coords) ==
    IF ~hit.found /\ manual_coords = NoCoords THEN [raised |-> FALSE, coords |-> NoCoords]
    ELSE ManualUnlessValid(IF hit.found THEN RegistryCoords(hit.row)
                           ELSE [raised |-> FALSE, coords |-> NoCoords],
                           manual_coords)

\* A variant that numbers the stations from zero.
StationRecord_zero_based(station, index, coords) ==
    [station |-> station, order |-> index - 1,
     latitude |-> coords[1], longitude |-> coords[2]]

\* Lines 216-223: the emitted record; index is enumerate(station_order, start=1).
StationRecord(station, index, coords) ==
    [station |-> station, order |-> index,
     latitude |-> coords[1], longitude |-> coords[2]]

\* Lines 181-223: the loop over station_order; MatchStation is its body
\* for the station at index, of canonical key k and coordinates r.
RECURSIVE MatchFrom(_, _, _, _, _)
MatchStation(order, index, lookup, matched_acc, unmatched_acc, r) ==
    IF r.raised
    THEN [raised |-> TRUE, matched |-> matched_acc, unmatched |-> unmatched_acc]
    ELSE IF r.coords = NoCoords
    THEN MatchFrom(order, index + 1, lookup, matched_acc, Append(unmatched_acc, order[index]))
    ELSE MatchFrom(order, index + 1, lookup,
                   Append(matched_acc, StationRecord(order[index], index, r.coords)),
                   unmatched_acc)

MatchFrom(order, index, lookup, matched_acc, unmatched_acc) ==
    IF index > Len(order)
    THEN [raised |-> FALSE, matched |-> matched_acc, unmatched |-> unmatched_acc]
    ELSE MatchStation(order, index, lookup, matched_acc, unmatched_acc,
                      ResolveCoords(RegistryRow(lookup, canonical_name(order[index])),
                                    ManualCoords(canonical_name(order[index]))))

\* match_station_locations(station_order, station_csv) for the file content
\* csv: the two lists returned, or raised when the call ends in an
\* exception (AttributeError of build_station_lookup, KeyError of line 199
\* or 200).
match_station_locations(order, csv) ==
    LET built == build_station_lookup(DictReader(csv))
    IN  IF built.raised THEN [raised |-> TRUE, matched |-> <<>>, unmatched |-> <<>>]
        ELSE MatchFrom(order, 1, built.lookup, <<>>, <<>>)

\* Stations of the matcher checks, as the fare matrix spells them:
\*   Kajang            alias key and manual coordinates
\*   KL Sentral        manual coordinates only
\*   Pasar Seni (KJL)  alias key only (canonical key "pasar seni")
\*   Maluri            neither
Kajang == <<"K","a","j","a","n","g">>
KLSentral == <<"K","L"," ","S","e","n","t","r","a","l">>
PasarSeniKJL == <<"P","a","s","a","r"," ","S","e","n","i"," ","(","K","J","L",")">>
Maluri == <<"M","a","l","u","r","i">>
MatchStations == {Kajang, KLSentral, PasarSeniKJL, Maluri}

\* Station names as the registry spells them.
StesenKajang == <<"S","t","e","s","e","n"," ","K","a","j","a","n","g">>
MaluriSBK == <<"M","a","l","u","r","i"," ","(","S","B","K",")">>

\* Registry coordinates: on the edge of the bounding box, just outside it in
\* one coordinate, unparseable, not a number.
OnEdge == << <<"7",".","5">>, <<"9","9",".","0">> >>
LatOutside == << <<"7",".","5","0","0","0","1">>, <<"9","9",".","0">> >>
LonOutside == << <<"7",".","5">>, <<"9","8",".","9","9","9","9","9">> >>
LatMalformed == << <<"n","/","a">>, <<"9","9",".","0">> >>
LonNaN == << <<"7","5","e","-","1">>, <<"n","a","n">> >>
\* A pair inside the box, written with an exponent and a digit-group
\* underscore.
Exponent == << <<"3",".","1","e","0">>, <<"1","_","0","1",".","5">> >>
\* A pair on the edge with a form feed around each number, which float()
\* skips, and one whose latitude follows U+001C, which float() rejects.
FormFeed == << <<"\f","7",".","5">>, <<"9","9",".","0","\f">> >>
Separator == << <<"U+001C","7",".","5">>, <<"9","9",".","0">> >>

\* The line of a station under the header station_name,latitude,longitude.
RegistryLine(name, latlon) == <<name, latlon[1], latlon[2]>>

\* lrt-malaysia.csv with the columns station_name, latitude, longitude:
\* Kajang with coordinates on the edge, with a longitude outside the box,
\* unparseable, not a number, in exponent notation, between form feeds,
\* after a separator, and on a line that ends after the name;
\* Maluri with coordinates on the edge and with a latitude outside the box.
RegistryHeader == <<"station_name", "latitude", "longitude">>
RegistryLines ==
    {RegistryLine(StesenKajang, c) : c \in {OnEdge, LonOutside, LatMalformed, LonNaN, Exponent,
                                         FormFeed, Separator}}
    \cup {RegistryLine(MaluriSBK, c) : c \in {OnEdge, LatOutside}}
    \cup {<<StesenKajang>>}

\* A registry whose coordinate columns have other names.
RenamedHeader == <<"station_name", "lat", "lon">>
RenamedLines == {RegistryLine(StesenKajang, OnEdge), RegistryLine(MaluriSBK, OnEdge)}

\* A registry that names the station in its last column, with a line that
\* ends before it.
NameLastHeader == <<"latitude", "longitude", "station_name">>
NameLastLines == {<<OnEdge[1], OnEdge[2], StesenKajang>>, <<OnEdge[1]>>}

MaxRegistryRows == 2

\* The registry files of at most n lines after the header.
RegistryFiles(n) ==
    UNION {{<<RegistryHeader>> \o ls : ls \in [1..m -> RegistryLines]}
           \cup {<<RenamedHeader>> \o ls : ls \in [1..m -> RenamedLines]}
           \cup {<<NameLastHeader>> \o ls : ls \in [1..m -> NameLastLines]} : m \in 0..n}

\* Headers of the matcher checks: no destination, or two destinations.
MatchHeaders == { << <<>> >>, << <<>>, Kajang, KLSentral >> }

\* A data row: an origin and a zero fare under every destination.
MatchDataRow(origin, n) == <<origin>> \o [j \in 1..n |-> <<"0">>]

InitMatch ==
    /\ pc = "fare_start"
    /\ \E h \in MatchHeaders : \E n \in 0..MaxFareRows :
         \E os \in [1..n -> MatchStations] :
            fare_csv = <<h>> \o [i \in 1..n |-> MatchDataRow(os[i], Len(h) - 1)]
    /\ station_csv \in RegistryFiles(MaxRegistryRows)
    /\ station_order = Unset /\ tidy_rows = Unset
    /\ matched = Unset /\ unmatched = Unset
    /\ IdleCanon /\ IdleMain /\ IdleBus /\ IdleVehicle /\ IdleRail

\* station_locations, unmatched = match_station_locations(station_order, STATIONS_PATH)
MatchStationLocations ==
    /\ pc = "fare_done"
    /\ \E r \in {match_station_locations(station_order, station_csv)} :
           IF r.raised
           THEN pc' = "match_raised" /\ UNCHANGED <<matched, unmatched>>
           ELSE /\ pc' = "match_done"
                /\ matched' = r.matched
                /\ unmatched' = r.unmatched
    /\ UNCHANGED <<fare_csv, station_csv, station_order, tidy_rows,
                   canon_vars, main_vars, bus_vars, vehicle_vars, rail_vars>>

NextMatch == ReadFareMatrix \/ MatchStationLocations

SpecMatch == InitMatch /\ [][NextMatch]_vars

\* The rows csv.DictReader yields for the registry file.
C2_RegistryRows == DictReader(station_csv)

\* The number Python reads from a coordinate cell of the registry files:
\* 7.5 (also written 75e-1), 99.0, 7.50001, 98.99999, 3.1 (written 3.1e0),
\* 101.5 (written 1_01.5) and nan; a form feed before or after the number
\* is skipped; no number from n/a or after the separator U+001C.
C2_Reading(cell) ==
    CASE cell = <<"7",".","5">> -> Num(1, <<7, 5>>, 0)
      [] cell = <<"7","5","e","-","1">> -> Num(1, <<7, 5>>, 0)
      [] cell = <<"9","9",".","0">> -> Num(1, <<9, 9>>, 1)
      [] cell = <<"7",".","5","0","0","0","1">> -> Num(1, <<7, 5, 0, 0, 0, 1>>, 0)
      [] cell = <<"9","8",".","9","9","9","9","9">> -> Num(1, <<9, 8, 9, 9, 9, 9, 9>>, 1)
      [] cell = <<"3",".","1","e","0">> -> Num(1, <<3, 1>>, 0)
      [] cell = <<"1","_","0","1",".","5">> -> Num(1, <<1, 0, 1, 5>>, 2)
      [] cell = <<"n","a","n">> -> NaN
      [] cell = <<"\f","7",".","5">> -> Num(1, <<7, 5>>, 0)
      [] cell = <<"9","9",".","0","\f">> -> Num(1, <<9, 9>>, 1)
      [] OTHER -> NoneFloat

\* A cell of registry row i as a number, if the row has the cell and it is
\* one.
C2_Number(i, column) ==
    IF column \in DOMAIN C2_RegistryRows[i] /\ C2_RegistryRows[i][column] # NoneStr
    THEN C2_Reading(C2_RegistryRows[i][column])
    ELSE NoneFloat

\* 1.0 <= lat <= 7.5 and 99.0 <= lon <= 105.0
C2_InsideBox(lat, lon) ==
    /\ lat.kind = "num" /\ lon.kind = "num"
    /\ ~NumLess(lat, Num(1, <<1>>, 0)) /\ ~NumLess(Num(1, <<7, 5>>, 0), lat)
    /\ ~NumLess(lon, Num(1, <<9, 9>>, 1)) /\ ~NumLess(Num(1, <<1, 0, 5>>, 2), lon)

\* The coordinates of record rec are a pair some registry row carries, and
\* that pair lies inside the Malaysia bounding box.
C2_FromRegistryInBox(rec) ==
    /\ \E i \in 1..Len(C2_RegistryRows) :
           /\ C2_Number(i, "latitude") = rec.latitude
           /\ C2_Number(i, "longitude") = rec.longitude
    /\ C2_InsideBox(rec.latitude, rec.longitude)

\* The coordinates of record rec are the MANUAL_COORDINATES pair of its key.
C2_FromManual(rec) ==
    \E e \in MANUAL_COORDINATES :
        e[1] = canonical_name(rec.station) /\ <<rec.latitude, rec.longitude>> = <<e[2], e[3]>>

\* C2: every record match_station_locations emits carries either a registry
\* row's coordinate pair that lies inside the bounding box (latitude in
\* [1.0, 7.5], longitude in [99.0, 105.0]) or the manual pair of its key; a
\* registry row that is unparseable or out of range in either coordinate
\* contributes neither its latitude nor its longitude.  (A call that ends
\* in an exception returns no record.)
C2_RegistryCoordinatesInsideBox ==
    /\ pc = "match_done" =>
           \A i \in 1..Len(matched) :
               C2_FromRegistryInBox(matched[i]) \/ C2_FromManual(matched[i])
    /\ pc = "match_raised" => matched = Unset

\* Kajang's registry row has a longitude just outside the box (98.99999)
\* and Maluri's row is on the edge of the box: Kajang is emitted with its
\* manual pair, Maluri with the registry pair.
C2_Witness ==
    /\ pc = "match_done"
    /\ station_csv = << RegistryHeader, RegistryLine(StesenKajang, LonOutside),
                        RegistryLine(MaluriSBK, OnEdge) >>
    /\ station_order = <<Kajang, Maluri>>
    /\ matched = << [station |-> Kajang, order |-> 1,
                     latitude |-> Num(1, <<3, 0, 0, 3, 3>>, 0),
                     longitude |-> Num(1, <<1, 0, 1, 7, 8, 9, 6>>, 2)],
                    [station |-> Maluri, order |-> 2,
                     latitude |-> Num(1, <<7, 5>>, 0), longitude |-> Num(1, <<9, 9>>, 1)] >>

\* The destination columns of the header that name station s.
C3_HeaderCols(s) == {j \in 2..Len(fare_csv[1]) : strip(fare_csv[1][j]) = s}

\* C3 as stated: order is strictly increasing and, for a station the header
\* names, equals the 1-based position of its column among the destinations.
C3_OrderIsHeaderPosition ==
    pc = "match_done" =>
        /\ \A i, j \in 1..Len(matched) : i < j => matched[i].order < matched[j].order
        /\ \A i \in 1..Len(matched) :
               C3_HeaderCols(matched[i].station) # {} =>
                   (matched[i].order + 1) \in C3_HeaderCols(matched[i].station)

\* C3 as amended: order is strictly increasing from one record to the next,
\* and each record's order is the 1-based position of its station in the
\* station list read_fare_matrix returns (origins in first-occurrence order,
\* then header-only destinations).
C3_OrderIsStationListPosition ==
    pc = "match_done" =>
        /\ \A i, j \in 1..Len(matched) : i < j => matched[i].order < matched[j].order
        /\ \A i \in 1..Len(matched) :
               /\ matched[i].order \in 1..Len(station_order)
               /\ station_order[matched[i].order] = matched[i].station

\* The header lists Kajang before KL Sentral, the rows list KL Sentral
\* first: KL Sentral gets order 1, Kajang order 2.
C3_Witness ==
    /\ pc = "match_done"
    /\ fare_csv = << << <<>>, Kajang, KLSentral >>,
                     MatchDataRow(KLSentral, 2), MatchDataRow(Kajang, 2) >>
    /\ Len(matched) = 2
    /\ matched[1].station = KLSentral /\ matched[1].order = 1
    /\ matched[2].station = Kajang /\ matched[2].order = 2

\* The names the registry is searched under for key k, in the order of the
\* fallback chain: the alias target when k is an alias, then k itself.
C4_Targets(k) ==
    (IF \E e \in MANUAL_ALIASES : e[1] = k
     THEN <<(CHOOSE e \in MANUAL_ALIASES : e[1] = k)[2]>> ELSE <<>>) \o <<k>>

\* The name of registry row i, blank when the file has no such column.
C4_Name(i) ==
    IF "station_name" \in DOMAIN C2_RegistryRows[i]
       /\ C2_RegistryRows[i]["station_name"] # NoneStr
    THEN strip(C2_RegistryRows[i]["station_name"]) ELSE <<>>

\* Rows of the registry file whose name canonicalizes to target.
C4_RowsOf(target) ==
    {i \in 1..Len(C2_RegistryRows) :
        C4_Name(i) # <<>> /\ canonical_name(C4_Name(i)) = target}

\* The coordinate pair the registry holds for target: that of the first row
\* of that name, if it parses and lies inside the box; NoCoords otherwise.
C4_RegistryPair(target) ==
    IF target = <<>> \/ C4_RowsOf(target) = {} THEN NoCoords
    ELSE LET i == CHOOSE r \in C4_RowsOf(target) : \A q \in C4_RowsOf(target) : r <= q
             lat == C2_Number(i, "latitude")
             lon == C2_Number(i, "longitude")
         IN  IF C2_InsideBox(lat, lon) THEN <<lat, lon>> ELSE NoCoords

\* The outcome of the chain registry (alias, then direct) -> manual table ->
\* unmatched for a station; NoCoords stands for unmatched.
C4_Chain(station) ==
    LET k == canonical_name(station)
        targets == C4_Targets(k)
        hits == {t \in 1..Len(targets) : C4_RegistryPair(targets[t]) # NoCoords}
    IN  IF hits # {}
        THEN C4_RegistryPair(targets[CHOOSE t \in hits : \A u \in hits : t <= u])
        ELSE IF \E e \in MANUAL_COORDINATES : e[1] = k
        THEN LET e == CHOOSE e \in MANUAL_COORDINATES : e[1] = k IN <<e[2], e[3]>>
        ELSE NoCoords

\* The registry files match_station_locations cannot read: a line is too
\* short to have a station_name cell, or the file has no latitude or no
\* longitude column.
C4_RegistryUnreadable ==
    \/ \E i \in 1..Len(C2_RegistryRows) :
           "station_name" \in DOMAIN C2_RegistryRows[i]
           /\ C2_RegistryRows[i]["station_name"] = NoneStr
    \/ station_csv # <<>> /\ ~({"latitude", "longitude"} \subseteq Range(station_csv[1]))

\* The lists matched_list and unmatched_list hold every station of
\* station_order once, as the chain says: emitted with the registry pair
\* when the alias lookup or the direct lookup gives a valid pair, else with
\* the manual pair of its key when there is one, and in unmatched_list, not
\* emitted, exactly when neither exists.
C4_FollowsChain(matched_list, unmatched_list) ==
    /\ Len(matched_list) + Len(unmatched_list) = Len(station_order)
    /\ \A i \in 1..Len(station_order) :
           LET s == station_order[i]
               recs == {m \in 1..Len(matched_list) : matched_list[m].station = s}
           IN  IF C4_Chain(s) = NoCoords
               THEN recs = {} /\ InList(s, unmatched_list)
               ELSE /\ ~InList(s, unmatched_list)
                    /\ Cardinality(recs) = 1
                    /\ \A m \in recs :
                           <<matched_list[m].latitude, matched_list[m].longitude>>
                               = C4_Chain(s)

\* What a call has put into matched and unmatched when it ends: the lists
\* returned, nothing when it ends in an exception.
C4_Matched == IF pc = "match_raised" THEN <<>> ELSE matched
C4_Unmatched == IF pc = "match_raised" THEN <<>> ELSE unmatched

\* C4: match_station_locations applies the chain registry (alias, then
\* direct) -> manual table -> unmatched to every station, for every
\* registry content: when the call has ended, each station of
\* station_order is in exactly one of matched and unmatched, as the chain
\* says.
C4_FallbackChain ==
    pc \in {"match_done", "match_raised"} => C4_FollowsChain(C4_Matched, C4_Unmatched)

\* What the code does: a call that returns follows the chain, and a call
\* ends in an exception, with no station in either list, only on a
\* registry file it cannot read.
C4_ReturnedListsFollowChain ==
    /\ pc = "match_done" => C4_FollowsChain(matched, unmatched)
    /\ pc = "match_raised" => C4_RegistryUnreadable

\* A registry line that ends before its station_name cell: the call ends
\* in an exception although the station list names Kajang.
C4_AbortsOnShortLine ==
    /\ pc = "match_raised"
    /\ station_csv = <<NameLastHeader, <<OnEdge[1]>> >>
    /\ station_order = <<Kajang>>

\* All three outcomes in one run: Kajang (alias key) takes the valid registry
\* pair although the manual table has an entry, KL Sentral takes its manual
\* pair, Pasar Seni (KJL) and Maluri are unmatched.
C4_Witness ==
    /\ pc = "match_done"
    /\ station_csv = << RegistryHeader, RegistryLine(StesenKajang, OnEdge),
                        RegistryLine(MaluriSBK, LatOutside) >>
    /\ station_order = <<PasarSeniKJL, Maluri, Kajang, KLSentral>>
    /\ unmatched = <<PasarSeniKJL, Maluri>>
    /\ matched = << [station |-> Kajang, order |-> 3,
                     latitude |-> Num(1, <<7, 5>>, 0), longitude |-> Num(1, <<9, 9>>, 1)],
                    [station |-> KLSentral, order |-> 4,
                     latitude |-> Num(1, <<3, 1, 3, 4, 6>>, 0),
                     longitude |-> Num(1, <<1, 0, 1, 6, 8, 6, 5>>, 2)] >>
(***************************************************************************)
(* prepare_transport_data.py: build_state_bus_counts                       *)
(*                                                                         *)
(* A row of bus_domestic.csv is a record with the columns State and        *)
(* Terminal ("Terminal / Station").  A dict that is iterated is a sequence *)
(* of <<key, value>> pairs in insertion order.                             *)
(***************************************************************************)

BUS_STATE_COORDS ==
    { <<<<"J","o","h","o","r">>, Num(1, <<1, 4, 8, 4, 7>>, 0), Num(1, <<1, 0, 3, 7, 6, 1, 8>>, 2)>>
    , <<<<"K","e","d","a","h">>, Num(1, <<6, 1, 1, 8, 4>>, 0), Num(1, <<1, 0, 0, 3, 6, 8, 5>>, 2)>>
    , <<<<"K","e","l","a","n","t","a","n">>, Num(1, <<5, 2, 8, 5, 2>>, 0), Num(1, <<1, 0, 2, 0, 0, 3>>, 2)>>
    , <<<<"K","u","a","l","a"," ","L","u","m","p","u","r">>, Num(1, <<3, 1, 3, 9>>, 0), Num(1, <<1, 0, 1, 6, 8, 6, 9>>, 2)>>
    , <<<<"M","e","l","a","k","a">>, Num(1, <<2, 1, 8, 9, 6>>, 0), Num(1, <<1, 0, 2, 2, 5, 0, 1>>, 2)>>
    , <<<<"N","e","g","e","r","i"," ","S","e","m","b","i","l","a","n">>, Num(1, <<2, 7, 2, 5, 8>>, 0), Num(1, <<1, 0, 2, 1, 4>>, 2)>>
    , <<<<"P","a","h","a","n","g">>, Num(1, <<3, 7, 9, 5, 6>>, 0), Num(1, <<1, 0, 2, 4, 3, 8, 1>>, 2)>>
    , <<<<"P","e","n","a","n","g">>, Num(1, <<5, 4, 1, 4, 1>>, 0), Num(1, <<1, 0, 0, 3, 2, 9>>, 2)>>
    , <<<<"P","e","r","a","k">>, Num(1, <<4, 5, 9, 2, 1>>, 0), Num(1, <<1, 0, 1, 0, 9, 0, 1>>, 2)>>
    , <<<<"P","e","r","l","i","s">>, Num(1, <<6, 4, 4, 4>>, 0), Num(1, <<1, 0, 0, 2, 0, 4>>, 2)>>
    , <<<<"S","a","b","a","h">>, Num(1, <<5, 9, 7, 8, 8>>, 0), Num(1, <<1, 1, 6, 0, 7, 5, 3>>, 2)>>
    , <<<<"S","a","r","a","w","a","k">>, Num(1, <<1, 5, 5, 3, 3>>, 0), Num(1, <<1, 1, 0, 3, 5, 9, 2>>, 2)>>
    , <<<<"S","e","l","a","n","g","o","r">>, Num(1, <<3, 0, 7, 3, 8>>, 0), Num(1, <<1, 0, 1, 5, 1, 8, 3>>, 2)>>
    , <<<<"T","e","r","e","n","g","g","a","n","u">>, Num(1, <<5, 3, 2, 9>>, 0), Num(1, <<1, 0, 3, 1, 4, 1, 2>>, 2)>>
    }

\* Line 67: the sample keeps the first five terminals.
SampleSize == 5

\* list[:n]
Take(list, n) == SubSeq(list, 1, Min(n, Len(list)))

\* Insert string s into the ascending list, after the elements equal to it.
RECURSIVE InsertStr(_, _)
InsertStr(list, s) ==
    IF list = <<>> THEN <<s>>
    ELSE IF StrLess(s, Head(list)) THEN <<s>> \o list
    ELSE <<Head(list)>> \o InsertStr(Tail(list), s)

\* sorted(list) for a list of str.
RECURSIVE sorted(_)
sorted(list) ==
    IF list = <<>> THEN <<>>
    ELSE InsertStr(sorted(SubSeq(list, 1, Len(list) - 1)), list[Len(list)])

\* Lines 62 and 67: sorted(terminals)[:5]
SampleTerminals(terminals) == Take(sorted(terminals), SampleSize)

\* Lines 49-54: grouped[state].append(terminal) for every row with a
\* non-blank state and terminal; a new state is appended to the dict.
RECURSIVE GroupAppend(_, _, _)
GroupAppend(grouped, state, terminal) ==
    IF grouped = <<>> THEN << <<state, <<terminal>>>> >>
    ELSE IF Head(grouped)[1] = state
         THEN << <<state, Append(Head(grouped)[2], terminal)>> >> \o Tail(grouped)
         ELSE <<Head(grouped)>> \o GroupAppend(Tail(grouped), state, terminal)

\* A row too short for its State or Terminal / Station column holds None
\* there, and None.strip() raises AttributeError (lines 50-51); a file
\* without the column gives "" for every row.
RECURSIVE GroupRows(_, _)
GroupRows(rows, grouped) ==
    IF rows = <<>> THEN [raised |-> FALSE, grouped |-> grouped]
    ELSE LET state_cell == RowGetOr(Head(rows), "State", <<>>)
             terminal_cell == RowGetOr(Head(rows), "Terminal / Station", <<>>)
             state == strip(state_cell)
             terminal == strip(terminal_cell)
         IN  IF state_cell = NoneStr \/ terminal_cell = NoneStr
             THEN [raised |-> TRUE, grouped |-> grouped]
             ELSE GroupRows(Tail(rows),
                            IF state = <<>> \/ terminal = <<>> THEN grouped
                            ELSE GroupAppend(grouped, state, terminal))

\* Lines 57-71: one record per grouped state that BUS_STATE_COORDS knows.
RECURSIVE BusRecords(_)
BusRecords(grouped) ==
    IF grouped = <<>> THEN <<>>
    ELSE LET state == Head(grouped)[1]
             terminals == Head(grouped)[2]
         IN  (IF ~DictHas(BUS_STATE_COORDS, state) THEN <<>>
              ELSE << [state |-> state,
                       terminal_count |-> Len(terminals),
                       sample_terminals |-> SampleTerminals(terminals),
                       latitude |-> DictGet(BUS_STATE_COORDS, state)[2],
                       longitude |-> DictGet(BUS_STATE_COORDS, state)[3]] >>)
             \o BusRecords(Tail(grouped))

\* Insert rec into a list that is descending by terminal_count, after the
\* records whose count is not smaller (list.sort is stable, also reversed).
RECURSIVE InsertByCountDesc(_, _)
InsertByCountDesc(list, rec) ==
    IF list = <<>> THEN <<rec>>
    ELSE IF Head(list).terminal_count < rec.terminal_count THEN <<rec>> \o list
    ELSE <<Head(list)>> \o InsertByCountDesc(Tail(list), rec)

\* Line 73: records.sort(key=terminal_count, reverse=True)
RECURSIVE SortByCountDesc(_)
SortByCountDesc(list) ==
    IF list = <<>> THEN <<>>
    ELSE InsertByCountDesc(SortByCountDesc(SubSeq(list, 1, Len(list) - 1)), list[Len(list)])

\* The list returned, or raised when the call ends in an exception.
build_state_bus_counts(rows) ==
    LET g == GroupRows(rows, <<>>)
    IN  IF g.raised THEN [raised |-> TRUE, records |-> <<>>]
        ELSE [raised |-> FALSE, records |-> SortByCountDesc(BusRecords(g.grouped))]
Johor == <<"J","o","h","o","r">>
Kedah == <<"K","e","d","a","h">>
Singapore == <<"S","i","n","g","a","p","o","r","e">>
Larkin == <<"L","a","r","k","i","n">>
BatuPahat == <<"B","a","t","u"," ","P","a","h","a","t">>
AlorSetar == <<"A","l","o","r"," ","S","e","t","a","r">>
Woodlands == <<"W","o","o","d","l","a","n","d","s">>

\* The DictReader row of a line of bus_domestic.csv.
BusHeader == <<"State", "Terminal / Station">>
BusRow(state, terminal) == DictRow(BusHeader, <<state, terminal>>)

\* Rows of bus_domestic.csv: two Johor terminals (one row padded with
\* blanks), a Kedah terminal, a Kedah row with a blank terminal, a state
\* BUS_STATE_COORDS does not know, and a Kedah line that ends after the
\* state.
BusRowChoices ==
    { BusRow(Johor, Larkin), BusRow(Padded(Johor), Padded(BatuPahat)),
      BusRow(Kedah, AlorSetar), BusRow(Kedah, <<" ">>),
      BusRow(Singapore, Woodlands), DictRow(BusHeader, <<Kedah>>) }

MaxBusRows == 6

InitBus ==
    /\ pc = "bus_start"
    /\ \E n \in 0..MaxBusRows : bus_rows \in [1..n -> BusRowChoices]
    /\ bus_records = Unset
    /\ IdleCanon /\ IdleAmpang /\ IdleMain /\ IdleVehicle /\ IdleRail

\* bus_records = build_state_bus_counts(bus_rows)
BuildStateBusCounts ==
    /\ pc = "bus_start"
    /\ \E r \in {build_state_bus_counts(bus_rows)} :
           IF r.raised
           THEN pc' = "bus_raised" /\ UNCHANGED bus_records
           ELSE pc' = "bus_done" /\ bus_records' = r.records
    /\ UNCHANGED <<bus_rows, canon_vars, ampang_vars, main_vars, vehicle_vars, rail_vars>>

NextBus == BuildStateBusCounts

SpecBus == InitBus /\ [][NextBus]_vars

\* Rows of a state that name a terminal.
\* The stripped cell of row i, blank for a cell the line does not have.
C9_Cell(i, column) ==
    IF bus_rows[i][column] = NoneStr THEN <<>> ELSE strip(bus_rows[i][column])
C9_State(i) == C9_Cell(i, "State")
C9_Terminal(i) == C9_Cell(i, "Terminal / Station")
C9_Rows(state) ==
    {i \in 1..Len(bus_rows) : C9_State(i) = state /\ C9_Terminal(i) # <<>>}
C9_Occurrences(state, t) ==
    Cardinality({i \in C9_Rows(state) : C9_Terminal(i) = t})
C9_Smaller(state, t) ==
    Cardinality({i \in C9_Rows(state) : StrLess(C9_Terminal(i), t)})
C9_InSample(rec, t) ==
    Cardinality({j \in 1..Len(rec.sample_terminals) : rec.sample_terminals[j] = t})
C9_KnownStates == {e[1] : e \in BUS_STATE_COORDS}

\* The list records holds one record for every state of BUS_STATE_COORDS
\* that has a row with a terminal and none for any other state;
\* terminal_count is the number of the state's rows with a non-blank
\* terminal; sample_terminals is the first min(5, terminal_count) of the
\* state's terminals in ascending order; the records are ordered by
\* terminal_count, non-increasing.
C9_RecordsOf(records) ==
    LET n == Len(records) IN
    /\ \A i, j \in 1..n : i # j => records[i].state # records[j].state
    /\ {records[i].state : i \in 1..n} = {s \in C9_KnownStates : C9_Rows(s) # {}}
    /\ \A i, j \in 1..n :
           i < j => records[i].terminal_count >= records[j].terminal_count
    /\ \A i \in 1..n :
           LET rec == records[i]
               sample == rec.sample_terminals
           IN  /\ rec.terminal_count = Cardinality(C9_Rows(rec.state))
               /\ Len(sample) = Min(5, rec.terminal_count)
               /\ \A j \in 1..(Len(sample) - 1) : ~StrLess(sample[j + 1], sample[j])
               /\ \A r \in C9_Rows(rec.state) :
                      LET t == C9_Terminal(r)
                          room == 5 - C9_Smaller(rec.state, t)
                      IN  C9_InSample(rec, t) =
                              IF room <= 0 THEN 0
                              ELSE Min(room, C9_Occurrences(rec.state, t))

\* The records a call has emitted when it ends: the list returned, nothing
\* when it ends in an exception.
C9_Emitted == IF pc = "bus_raised" THEN <<>> ELSE bus_records

\* C9: for every input, build_state_bus_counts emits one record for every
\* state of BUS_STATE_COORDS that has a row with a non-blank terminal and
\* none for any other state (a row of an unknown state is silently
\* excluded), with terminal_count the number of such rows, sample_terminals
\* the first min(5, terminal_count) terminals in ascending order, and the
\* records ordered by terminal_count, non-increasing.
C9_BusRecords ==
    pc \in {"bus_done", "bus_raised"} => C9_RecordsOf(C9_Emitted)

\* What the code does: a call that returns gives those records, and a call
\* ends in an exception only on a row that is too short to have both cells.
C9_ReturnedRecords ==
    /\ pc = "bus_done" => C9_RecordsOf(bus_records)
    /\ pc = "bus_raised" =>
           \E i \in 1..Len(bus_rows) : \E column \in DOMAIN bus_rows[i] :
               bus_rows[i][column] = NoneStr

\* A Johor terminal followed by a line that ends after the state: the call
\* ends in an exception and Johor gets no record.
C9_AbortsOnShortLine ==
    /\ pc = "bus_raised"
    /\ bus_rows = <<BusRow(Johor, Larkin), DictRow(BusHeader, <<Kedah>>)>>

\* Six Johor rows, Larkin before Batu Pahat in the file: the count is 6 and
\* the sample holds the five alphabetically first terminals.
C9_SampleOfSix ==
    /\ pc = "bus_done"
    /\ Len(bus_rows) = 6
    /\ bus_rows[1] = BusRow(Johor, Larkin)
    /\ Len(bus_records) = 1
    /\ bus_records[1].state = Johor
    /\ bus_records[1].terminal_count = 6
    /\ bus_records[1].sample_terminals = <<BatuPahat, BatuPahat, BatuPahat, Larkin, Larkin>>

(***************************************************************************)
(* prepare_transport_data.py: build_motor_vehicle_trend                    *)
(*                                                                         *)
(* A row is the dict csv.DictReader yields; row.get of a column the file   *)
(* does not have is None.                                                  *)
(***************************************************************************)

\* Line 80: row.get("Yea") or row.get("Year")
VehicleYearRaw(row) ==
    IF Truthy(RowGet(row, "Yea")) THEN RowGet(row, "Yea") ELSE RowGet(row, "Year")

\* Line 81: (row.get("Type of vehicle") or "").strip()
VehicleType(row) ==
    LET cell == RowGet(row, "Type of vehicle")
    IN  strip(IF Truthy(cell) THEN cell ELSE <<>>)

\* Lines 83-96: the record of a row, or <<>> when the row is skipped.
VehicleRecord(row) ==
    LET year_raw == VehicleYearRaw(row)
        vehicle_type == VehicleType(row)
        value_raw == RowGet(row, "Value")
    IN  IF ~Truthy(year_raw) \/ vehicle_type = <<>> \/ ~Truthy(value_raw) THEN <<>>
        ELSE LET year == int(year_raw)
                 value == int(value_raw)
             IN  IF year.kind = "ValueError" \/ value.kind = "ValueError" THEN <<>>
                 ELSE << [year |-> year.val, vehicle_type |-> vehicle_type,
                          count |-> value.val] >>

RECURSIVE VehicleRecords(_)
VehicleRecords(rows) ==
    IF rows = <<>> THEN <<>>
    ELSE VehicleRecord(Head(rows)) \o VehicleRecords(Tail(rows))

\* (a.vehicle_type, a.year) < (b.vehicle_type, b.year) as Python orders tuples.
VehicleKeyLess(a, b) ==
    \/ StrLess(a.vehicle_type, b.vehicle_type)
    \/ a.vehicle_type = b.vehicle_type /\ a.year < b.year

RECURSIVE InsertByVehicleKey(_, _)
InsertByVehicleKey(list, rec) ==
    IF list = <<>> THEN <<rec>>
    ELSE IF VehicleKeyLess(rec, Head(list)) THEN <<rec>> \o list
    ELSE <<Head(list)>> \o InsertByVehicleKey(Tail(list), rec)

\* Line 97: tidy.sort(key=(vehicle_type, year)), a stable sort.
RECURSIVE SortByVehicleKey(_)
SortByVehicleKey(list) ==
    IF list = <<>> THEN <<>>
    ELSE InsertByVehicleKey(SortByVehicleKey(SubSeq(list, 1, Len(list) - 1)), list[Len(list)])

build_motor_vehicle_trend(rows) == SortByVehicleKey(VehicleRecords(rows))

Cars == <<"C", "a", "r", "s">>
Buses == <<"B", "u", "s", "e", "s">>

\* Rows of the vehicles file as <<year, type, value>>: a pair that occurs
\* twice with different values, padded cells, a second type, and rows with a
\* non-numeric year, a missing value, a blank type, a non-numeric value, a
\* value with an underscore between its digits.
VehicleRowChoices ==
    { << <<"2","0","2","0">>, Cars, <<"1","0","0">> >>
    , << <<"2","0","2","0">>, Cars, <<"2","5","0">> >>
    , << <<"\f","2","0","1","9"," ">>, Padded(Cars), <<"9","0">> >>
    , << <<"2","0","1","9">>, Buses, <<"7">> >>
    , << <<"2","0","x","0">>, Cars, <<"5">> >>
    , << <<"2","0","2","0">>, Buses, <<>> >>
    , << <<"2","0","2","1">>, <<" ">>, <<"5">> >>
    , << <<"2","0","2","0">>, Buses, <<"1",",","0","0","0">> >>
    , << <<"2","0","2","1">>, Buses, <<"1","_","0","0","0">> >>
    }

\* The DictReader row of a file whose year column is headed column.
VehicleRow(column, cells) == DictRow(<<column, "Type of vehicle", "Value">>, cells)

MaxVehicleRows == 3

InitVehicle ==
    /\ pc = "vehicle_start"
    /\ \E column \in {"Yea", "Year"} : \E n \in 0..MaxVehicleRows :
         \E cells \in [1..n -> VehicleRowChoices] :
            vehicle_rows = [i \in 1..n |-> VehicleRow(column, cells[i])]
    /\ vehicle_records = Unset
    /\ IdleCanon /\ IdleAmpang /\ IdleMain /\ IdleBus /\ IdleRail

\* vehicle_records = build_motor_vehicle_trend(vehicle_rows)
BuildMotorVehicleTrend ==
    /\ pc = "vehicle_start"
    /\ vehicle_records' = build_motor_vehicle_trend(vehicle_rows)
    /\ pc' = "vehicle_done"
    /\ UNCHANGED <<vehicle_rows, canon_vars, ampang_vars, main_vars, bus_vars, rail_vars>>

NextVehicle == BuildMotorVehicleTrend

SpecVehicle == InitVehicle /\ [][NextVehicle]_vars

\* The year cell of row i: the Yea column when the file has it, else Year.
C8_YearCell(i) ==
    IF "Yea" \in DOMAIN vehicle_rows[i] /\ vehicle_rows[i]["Yea"] \notin {NoneStr, <<>>}
    THEN vehicle_rows[i]["Yea"]
    ELSE IF "Year" \in DOMAIN vehicle_rows[i] THEN vehicle_rows[i]["Year"]
    ELSE NoneStr

\* Rows with a non-missing, integer-parseable year and value and a non-blank type.
C8_ValidRows ==
    {i \in 1..Len(vehicle_rows) :
        /\ C8_YearCell(i) \notin {NoneStr, <<>>} /\ int(C8_YearCell(i)).kind = "int"
        /\ vehicle_rows[i]["Value"] # <<>> /\ int(vehicle_rows[i]["Value"]).kind = "int"
        /\ strip(vehicle_rows[i]["Type of vehicle"]) # <<>>}

C8_RecordOf(i) ==
    [year |-> int(C8_YearCell(i)).val,
     vehicle_type |-> strip(vehicle_rows[i]["Type of vehicle"]),
     count |-> int(vehicle_rows[i]["Value"]).val]

C8_Pair(rec) == <<rec.year, rec.vehicle_type>>

\* C8 as stated: no two emitted records share (year, vehicle_type), and the
\* pairs emitted are exactly the pairs of the valid rows, also when a pair
\* occurs on more than one row.
C8_OneRecordPerPair ==
    pc = "vehicle_done" =>
        /\ \A i, j \in 1..Len(vehicle_records) :
               i # j => C8_Pair(vehicle_records[i]) # C8_Pair(vehicle_records[j])
        /\ {C8_Pair(vehicle_records[i]) : i \in 1..Len(vehicle_records)}
               = {C8_Pair(C8_RecordOf(i)) : i \in C8_ValidRows}

\* What the code does where C8 fails: build_motor_vehicle_trend emits exactly
\* one record per row with a non-missing, integer-parseable year and value
\* and a non-blank type, so a (year, type) pair that occurs on k such rows
\* is emitted k times; rows with a missing or non-numeric year or value or
\* a blank type are skipped; the records are sorted by (vehicle_type, year).
C8_CodeEmitsOneRecordPerValidRow ==
    pc = "vehicle_done" =>
        /\ Len(vehicle_records) = Cardinality(C8_ValidRows)
        /\ \A i \in C8_ValidRows :
               Cardinality({j \in 1..Len(vehicle_records) : vehicle_records[j] = C8_RecordOf(i)})
                   = Cardinality({q \in C8_ValidRows : C8_RecordOf(q) = C8_RecordOf(i)})
        /\ \A i, j \in 1..Len(vehicle_records) :
               i < j =>
                   \/ StrLess(vehicle_records[i].vehicle_type, vehicle_records[j].vehicle_type)
                   \/ /\ vehicle_records[i].vehicle_type = vehicle_records[j].vehicle_type
                      /\ vehicle_records[i].year <= vehicle_records[j].year

\* (2020, Cars) on two rows of a file with a Yea column, and a Buses row:
\* both Cars rows are emitted, after the Buses record.
C8_DuplicatePairEmittedTwice ==
    /\ pc = "vehicle_done"
    /\ Len(vehicle_rows) = 3
    /\ vehicle_rows[1] = VehicleRow("Yea", << <<"2","0","2","0">>, Cars, <<"1","0","0">> >>)
    /\ vehicle_records =
           << [year |-> 2019, vehicle_type |-> Buses, count |-> 7],
              [year |-> 2020, vehicle_type |-> Cars, count |-> 100],
              [year |-> 2020, vehicle_type |-> Cars, count |-> 250] >>

(***************************************************************************)
(* prepare_transport_data.py: build_rail_monthly_ridership                 *)
(*                                                                         *)
(* A row is the dict csv.DictReader yields; row.get of a column the file   *)
(* does not have is None.                                                  *)
(***************************************************************************)

RAIL_FIELDS ==
    << <<"rail_lrt_ampang", <<"L","R","T"," ","A","m","p","a","n","g">>>>
    , <<"rail_lrt_kj", <<"L","R","T"," ","K","e","l","a","n","a"," ","J","a","y","a">>>>
    , <<"rail_mrt_kajang", <<"M","R","T"," ","K","a","j","a","n","g">>>>
    , <<"rail_mrt_pjy", <<"M","R","T"," ","P","u","t","r","a","j","a","y","a">>>>
    , <<"rail_monorail", <<"K","L"," ","M","o","n","o","r","a","i","l">>>>
    , <<"rail_komuter", <<"K","T","M"," ","K","o","m","u","t","e","r">>>>
    , <<"rail_komuter_utara", <<"K","T","M"," ","K","o","m","u","t","e","r"," ","U","t","a","r","a">>>>
    , <<"rail_ets", <<"E","T","S">>>>
    , <<"rail_intercity", <<"I","n","t","e","r","c","i","t","y">>>>
    , <<"rail_tebrau", <<"S","h","u","t","t","l","e"," ","T","e","b","r","a","u">>>>
    >>

\* s.split(sep) for a one-character sep: the pieces between the separators.
RECURSIVE SplitOnAcc(_, _, _, _)
SplitOnAcc(s, sep, cur, acc) ==
    IF s = <<>> THEN Append(acc, cur)
    ELSE IF Head(s) = sep THEN SplitOnAcc(Tail(s), sep, <<>>, Append(acc, cur))
    ELSE SplitOnAcc(Tail(s), sep, Append(cur, Head(s)), acc)

SplitOn(s, sep) == SplitOnAcc(s, sep, <<>>, <<>>)

DigitChar(d) == CHOOSE c \in DigitChars : DigitVal(c) = d

\* str(n) for n >= 0
RECURSIVE Decimal(_)
Decimal(n) == IF n < 10 THEN <<DigitChar(n)>> ELSE Append(Decimal(n \div 10), DigitChar(n % 10))

\* n as decimal digits, zero-padded on the left to width.
RECURSIVE ZeroPadded(_, _)
ZeroPadded(n, width) ==
    IF width = 0 THEN <<>>
    ELSE Append(ZeroPadded(n \div 10, width - 1), DigitChar(n % 10))

IsLeap(year) == year % 4 = 0 /\ (year % 100 # 0 \/ year % 400 = 0)

DaysInMonth(year, month) ==
    IF month = 2 THEN (IF IsLeap(year) THEN 29 ELSE 28)
    ELSE IF month \in {4, 6, 9, 11} THEN 30 ELSE 31

\* The directive %m of strptime: 1[0-2] | 0[1-9] | [1-9]
MonthField(p) == Len(p) \in {1, 2} /\ AllDigits(p) /\ DigitsVal(p) \in 1..12

\* The directive %d of strptime: 3[01] | [12]\d | 0[1-9] | [1-9] | " "[1-9]
DayField(p) ==
    \/ Len(p) \in {1, 2} /\ AllDigits(p) /\ DigitsVal(p) \in 1..31
    \/ Len(p) = 2 /\ p[1] = " " /\ p[2] \in DigitChars \ {"0"}

\* The directive %Y of strptime: four digits.
YearField(p) == Len(p) = 4 /\ AllDigits(p)

MDY == "%m/%d/%Y"
DMY == "%d/%m/%Y"

\* datetime.strptime(s, fmt) for the two formats the script uses: three
\* fields between slashes, each matching its directive, that name a day of
\* the calendar from year 1 on; a ValueError otherwise.
strptime(s, fmt) ==
    LET parts == SplitOn(s, "/")
    IN  IF Len(parts) # 3 THEN ValueError
        ELSE LET m_part == IF fmt = MDY THEN parts[1] ELSE parts[2]
                 d_part == IF fmt = MDY THEN parts[2] ELSE parts[1]
             IN  IF ~(MonthField(m_part) /\ DayField(d_part) /\ YearField(parts[3]))
                 THEN ValueError
                 ELSE LET year == DigitsVal(parts[3])
                          month == DigitsVal(m_part)
                          day == DigitsVal(lstrip(d_part))
                      IN  IF year < 1 \/ day > DaysInMonth(year, month) THEN ValueError
                          ELSE [kind |-> "datetime", val |-> <<year, month, day>>]

\* date_obj.strftime("%Y-%m"): the C library of the build writes the year
\* without padding (999-01), the month with two digits.
strftime(date_obj) ==
    Decimal(date_obj.val[1]) \o <<"-">> \o ZeroPadded(date_obj.val[2], 2)

\* Lines 122-128: MM/DD/YYYY, and DD/MM/YYYY when that raises ValueError.
ParseDate(date_raw) ==
    LET first == strptime(date_raw, MDY)
    IN  IF first.kind # "ValueError" THEN first ELSE strptime(date_raw, DMY)

OverflowError == [kind |-> "OverflowError", val |-> 0]

\* int(x) for a float x (or the error float() raised): truncation towards
\* zero; ValueError for nan, OverflowError for an infinity.
IntOfFloat(x) ==
    IF x.kind = "num"
    THEN [kind |-> "int", val |-> Truncated(x)]
    ELSE IF x.kind = "nan" THEN ValueError
    ELSE IF x.kind = "inf" THEN OverflowError
    ELSE x

\* Line 133: (row.get(field_name) or "").replace(",", "").strip()
RailValueRaw(row, field_name) ==
    LET cell == RowGet(row, field_name)
    IN  strip(replace(IF Truthy(cell) THEN cell ELSE <<>>, ",", <<>>))

\* Lines 140-142 on the dict aggregates, kept as the list of its items
\* <<label, month_key, total, count>> in insertion order.
AggregateAdd(aggregates, label, month_key, value) ==
    IF \E i \in 1..Len(aggregates) : aggregates[i][1] = label /\ aggregates[i][2] = month_key
    THEN [i \in 1..Len(aggregates) |->
            IF aggregates[i][1] = label /\ aggregates[i][2] = month_key
            THEN <<label, month_key, aggregates[i][3] + value, aggregates[i][4] + 1>>
            ELSE aggregates[i]]
    ELSE Append(aggregates, <<label, month_key, value, 1>>)

\* Lines 132-142: the fields of one row from RAIL_FIELDS[k] on.  The
\* OverflowError of int() is not caught by the except ValueError clause.
RECURSIVE AggregateFields(_, _, _, _)
AggregateFields(aggregates, row, month_key, k) ==
    IF k > Len(RAIL_FIELDS) THEN [raised |-> FALSE, aggregates |-> aggregates]
    ELSE LET value_raw == RailValueRaw(row, RAIL_FIELDS[k][1])
             value == IntOfFloat(float(value_raw))
         IN  IF value_raw = <<>> \/ value.kind = "ValueError"
             THEN AggregateFields(aggregates, row, month_key, k + 1)
             ELSE IF value.kind = "OverflowError"
             THEN [raised |-> TRUE, aggregates |-> aggregates]
             ELSE AggregateFields(
                      AggregateAdd(aggregates, RAIL_FIELDS[k][2], month_key, value.val),
                      row, month_key, k + 1)

\* Lines 117-142
RECURSIVE AggregateRows(_, _)
AggregateRows(aggregates, rows) ==
    IF rows = <<>> THEN [raised |-> FALSE, aggregates |-> aggregates]
    ELSE LET cell == RowGet(Head(rows), "date")
             date_raw == strip(IF Truthy(cell) THEN cell ELSE <<>>)
             date_obj == ParseDate(date_raw)
         IN  IF date_raw = <<>> \/ date_obj.kind = "ValueError"
             THEN AggregateRows(aggregates, Tail(rows))
             ELSE LET r == AggregateFields(aggregates, Head(rows), strftime(date_obj), 1)
                  IN  IF r.raised THEN r ELSE AggregateRows(r.aggregates, Tail(rows))

\* round(total / count) for count > 0: the nearest integer, the even one of
\* the two when the quotient lies halfway.
RoundQuotient(total, count) ==
    LET q == total \div count
        r == total % count
    IN  IF 2 * r < count THEN q
        ELSE IF 2 * r > count THEN q + 1
        ELSE IF q % 2 = 0 THEN q ELSE q + 1

\* Lines 144-154
RECURSIVE RailRecords(_)
RailRecords(aggregates) ==
    IF aggregates = <<>> THEN <<>>
    ELSE (IF Head(aggregates)[4] = 0 THEN <<>>
          ELSE << [month |-> Head(aggregates)[2], mode |-> Head(aggregates)[1],
                   average_ridership |->
                       RoundQuotient(Head(aggregates)[3], Head(aggregates)[4])] >>)
         \o RailRecords(Tail(aggregates))

\* (a.mode, a.month) < (b.mode, b.month) as Python orders tuples.
RailKeyLess(a, b) ==
    \/ StrLess(a.mode, b.mode)
    \/ a.mode = b.mode /\ StrLess(a.month, b.month)

RECURSIVE InsertByRailKey(_, _)
InsertByRailKey(list, rec) ==
    IF list = <<>> THEN <<rec>>
    ELSE IF RailKeyLess(rec, Head(list)) THEN <<rec>> \o list
    ELSE <<Head(list)>> \o InsertByRailKey(Tail(list), rec)

\* Line 156: tidy.sort(key=(mode, month)), a stable sort.
RECURSIVE SortByRailKey(_)
SortByRailKey(list) ==
    IF list = <<>> THEN <<>>
    ELSE InsertByRailKey(SortByRailKey(SubSeq(list, 1, Len(list) - 1)), list[Len(list)])

\* The list returned, or raised when the call ends in an exception.
build_rail_monthly_ridership(rows) ==
    LET r == AggregateRows(<<>>, rows)
    IN  IF r.raised THEN [raised |-> TRUE, records |-> <<>>]
        ELSE [raised |-> FALSE, records |-> SortByRailKey(RailRecords(r.aggregates))]

\* A row of the ridership file with its date, rail_lrt_ampang and
\* rail_lrt_kj cells; the file has no other column.
RidershipRow(date, lrt_ampang, lrt_kj) ==
    [date |-> date, rail_lrt_ampang |-> lrt_ampang, rail_lrt_kj |-> lrt_kj]

\* Rows: two January days in MM/DD/YYYY; a January day only DD/MM/YYYY can
\* read, with a thousands separator; a date both formats can read; an ISO
\* date; a padded one-digit date with unparseable cells; a 30th of
\* February; a leap day on a short row, its cell between
\* a separator U+001C and a blank; an infinite cell; a blank date; a
\* December day with a negative cell; a day of the year 999 with a cell in
\* exponent notation.
RidershipRowChoices ==
    { RidershipRow(<<"0","1","/","1","5","/","2","0","2","2">>, <<"1","0","0","0">>, <<>>)
    , RidershipRow(<<"0","1","/","2","0","/","2","0","2","2">>, <<"1","1","0","0">>, <<>>)
    , RidershipRow(<<"1","5","/","0","1","/","2","0","2","2">>, <<"1",",","0","0","1">>, <<"7">>)
    , RidershipRow(<<"0","2","/","0","1","/","2","0","2","2">>, <<"1","0","0","2">>, <<"7",".","9">>)
    , RidershipRow(<<"2","0","2","2","-","0","1","-","1","5">>, <<"5">>, <<"5">>)
    , RidershipRow(<<" ","1","/","5","/","2","0","2","2"," ">>, <<"n","/","a">>, <<"n","a","n">>)
    , RidershipRow(<<"0","2","/","3","0","/","2","0","2","2">>, <<"9">>, <<>>)
    , RidershipRow(<<"2","9","/","0","2","/","2","0","2","4">>, <<"U+001C","1","0","0","3"," ">>, NoneStr)
    , RidershipRow(<<"0","1","/","1","5","/","2","0","2","2">>, <<"i","n","f">>, <<>>)
    , RidershipRow(<<>>, <<"3">>, <<>>)
    , RidershipRow(<<"3","1","/","1","2","/","2","0","2","1">>, <<"-","4">>, <<"8">>)
    , RidershipRow(<<"0","1","/","1","5","/","0","9","9","9">>, <<"1",".","5","e","3">>, <<>>)
    }

MaxRidershipRows == 3

InitRail ==
    /\ pc = "rail_start"
    /\ \E n \in 0..MaxRidershipRows : ridership_rows \in [1..n -> RidershipRowChoices]
    /\ ridership_records = Unset
    /\ IdleCanon /\ IdleAmpang /\ IdleMain /\ IdleBus /\ IdleVehicle

\* ridership_records = build_rail_monthly_ridership(ridership_rows)
BuildRailMonthlyRidership ==
    /\ pc = "rail_start"
    /\ \E r \in {build_rail_monthly_ridership(ridership_rows)} :
           IF r.raised
           THEN pc' = "rail_raised" /\ UNCHANGED ridership_records
           ELSE pc' = "rail_done" /\ ridership_records' = r.records
    /\ UNCHANGED <<ridership_rows, canon_vars, ampang_vars, main_vars, bus_vars, vehicle_vars>>

NextRail == BuildRailMonthlyRidership

SpecRail == InitRail /\ [][NextRail]_vars

\* The date cell of row i, blank when missing.
C7_DateCell(i) ==
    IF RowGet(ridership_rows[i], "date") = NoneStr THEN <<>>
    ELSE strip(RowGet(ridership_rows[i], "date"))

C7_Dated(i) ==
    \/ strptime(C7_DateCell(i), MDY).kind = "datetime"
    \/ strptime(C7_DateCell(i), DMY).kind = "datetime"

\* The month of row i: from MM/DD/YYYY when that is a valid date, from
\* DD/MM/YYYY only otherwise.
C7_Month(i) ==
    IF strptime(C7_DateCell(i), MDY).kind = "datetime"
    THEN strftime(strptime(C7_DateCell(i), MDY))
    ELSE strftime(strptime(C7_DateCell(i), DMY))

\* The cell of row i for RAIL_FIELDS[k] as a float, thousands separators and
\* surrounding whitespace dropped.
C7_Cell(i, k) ==
    IF RowGet(ridership_rows[i], RAIL_FIELDS[k][1]) = NoneStr THEN ValueError
    ELSE float(strip(replace(RowGet(ridership_rows[i], RAIL_FIELDS[k][1]), ",", <<>>)))

\* Observations: <<row, field>> with a parseable date and a finite number.
C7_Observations ==
    {o \in (1..Len(ridership_rows)) \X (1..Len(RAIL_FIELDS)) :
        C7_Dated(o[1]) /\ C7_Cell(o[1], o[2]).kind = "num"}

C7_Bucket(o) == <<RAIL_FIELDS[o[2]][2], C7_Month(o[1])>>

C7_Buckets == {C7_Bucket(o) : o \in C7_Observations}

C7_InBucket(b) == {o \in C7_Observations : C7_Bucket(o) = b}

RECURSIVE C7_Sum(_)
C7_Sum(obs) ==
    IF obs = {} THEN 0
    ELSE LET o == CHOOSE x \in obs : TRUE
         IN  IntOfFloat(C7_Cell(o[1], o[2])).val + C7_Sum(obs \ {o})

C7_Abs(x) == IF x < 0 THEN -x ELSE x

\* The list records holds exactly one record per (mode label, year-month)
\* bucket with at least one parseable observation and none for any other
\* bucket; average_ridership is the sum of the bucket's values divided by
\* their count, rounded to the nearest integer (to the even one from
\* halfway); the records are sorted by (mode, month).
C7_RecordsOf(records) ==
    /\ Len(records) = Cardinality(C7_Buckets)
    /\ {<<records[j].mode, records[j].month>> : j \in 1..Len(records)} = C7_Buckets
    /\ \A j \in 1..Len(records) :
           LET obs == C7_InBucket(<<records[j].mode, records[j].month>>)
               off == C7_Abs(Cardinality(obs) * records[j].average_ridership - C7_Sum(obs))
           IN  /\ 2 * off <= Cardinality(obs)
               /\ 2 * off = Cardinality(obs) => records[j].average_ridership % 2 = 0
    /\ \A i, j \in 1..Len(records) :
           i < j =>
               \/ StrLess(records[i].mode, records[j].mode)
               \/ /\ records[i].mode = records[j].mode
                  /\ StrLess(records[i].month, records[j].month)

\* The records a call has emitted when it ends: the list returned, nothing
\* when it ends in an exception.
C7_Emitted == IF pc = "rail_raised" THEN <<>> ELSE ridership_records

\* C7: for every input, build_rail_monthly_ridership emits exactly one
\* record per (mode label, year-month) bucket that has at least one
\* parseable observation and no record for any other bucket, with
\* average_ridership the rounded arithmetic mean of the bucket's
\* observations; a row's month comes from its date read as MM/DD/YYYY when
\* that is a valid date and as DD/MM/YYYY only otherwise; rows with an
\* unparseable date contribute to no bucket.
C7_OneRecordPerBucketWithMean ==
    pc \in {"rail_done", "rail_raised"} => C7_RecordsOf(C7_Emitted)

\* What the code does: a call that returns gives those records, and a call
\* ends in an exception only when a cell of a dated row reads as an
\* infinity.
C7_ReturnedRecords ==
    /\ pc = "rail_done" => C7_RecordsOf(ridership_records)
    /\ pc = "rail_raised" =>
           \E i \in 1..Len(ridership_rows) : \E k \in 1..Len(RAIL_FIELDS) :
               C7_Dated(i) /\ C7_Cell(i, k).kind = "inf"

\* 1000 and an infinite cell on the same day: the call ends in an exception
\* and the bucket of January 2022 gets no record.
C7_AbortsOnInfinity ==
    /\ pc = "rail_raised"
    /\ Len(ridership_rows) = 2
    /\ ridership_rows[1].rail_lrt_ampang = <<"1","0","0","0">>
    /\ ridership_rows[2].rail_lrt_ampang = <<"i","n","f">>
    /\ ridership_rows[1].date = ridership_rows[2].date

\* The example of the specification: 1000 on 01/15/2022 and 1100 on
\* 01/20/2022 for rail_lrt_ampang give the single record of January 2022.
C7_ExampleOfSpec ==
    /\ pc = "rail_done"
    /\ Len(ridership_rows) = 2
    /\ ridership_rows[1].date = <<"0","1","/","1","5","/","2","0","2","2">>
    /\ ridership_rows[1].rail_lrt_ampang = <<"1","0","0","0">>
    /\ ridership_rows[2].date = <<"0","1","/","2","0","/","2","0","2","2">>
    /\ ridership_rows[2].rail_lrt_ampang = <<"1","1","0","0">>
    /\ ridership_records =
           << [month |-> <<"2","0","2","2","-","0","1">>,
               mode |-> <<"L","R","T"," ","A","m","p","a","n","g">>,
               average_ridership |-> 1050] >>


(***************************************************************************)
(* main() of both scripts.                                                 *)
(*                                                                         *)
(* src_files says what each source file is when the run starts: the        *)
(* directories that hold a copy and the rows of the copy main() reads.     *)
(* out_files says, for every output file of data/, whether it is absent,   *)
(* holds a previous run's content, or has been written by this run         *)
(* ("fresh").  An uncaught exception ends the process with a traceback     *)
(* ("exit_error").                                                         *)
(***************************************************************************)

\* Output files in the order main() writes them.
AmpangOutputs ==
    << "fare_long.json", "fare_long.csv", "ampang_station_locations.json",
       "ampang_route.json", "ampang_station_list.json" >>
TransportOutputs ==
    << "state_bus_counts.json", "motor_vehicles_trend.json",
       "rail_monthly_ridership.json" >>
VehiclesCsv == "2000 2021 Number of Cumulative Motor Vehicles Regi.csv"
TransportSources == << "bus_domestic.csv", VehiclesCsv, "ridership_headline.csv" >>

\* A source file: the directories that hold it and its rows.
SourceFile(dirs, rows) == [dirs |-> dirs, rows |-> rows]
Missing == SourceFile({}, <<>>)

\* A variant in which only a missing Fare.csv raises.
FareMatrixRaises_missing_only(file, result) == file.dirs = {}

\* read_fare_matrix raises when path.open fails (no file) or when the file
\* has no first row (ValueError "Fare.csv is empty"); result is what the
\* function makes of the rows of the file.
FareMatrixRaises(file, result) == file.dirs = {} \/ result.raised

\* match_station_locations raises when station_csv.open fails, and on a
\* registry whose rows make build_station_lookup or the coordinate lookup
\* raise; an empty registry gives an empty lookup.  result is what the
\* function makes of the rows of the file.
StationsRaises(file, result) == file.dirs = {} \/ result.raised

\* Lines 168-171 (and 176-179, 184-187): the source directory copy is used
\* when it exists, the one next to the scripts otherwise; load_csv raises
\* when the chosen path does not exist.  dirs is the set of directories
\* that hold the file.
ChosenPath(dirs) == IF "source" \in dirs THEN "source" ELSE "root"
LoadCsvRaises(dirs) == ChosenPath(dirs) \notin dirs

\* load_csv(path) for an existing file.
load_csv(file) == DictReader(file.rows)

\* path.write_text / path.open("w"): the file now holds this run's content.
Write(files, name) == [files EXCEPT ![name] = "fresh"]

\* Fare.csv of the runs: Kajang and KL Sentral, both as origin and as
\* destination.
MainFareCsv ==
    << << <<>>, Kajang, KLSentral >>, MatchDataRow(Kajang, 2), MatchDataRow(KLSentral, 2) >>

\* Fare.csv: missing, empty, or the matrix.
MainFareFiles == {Missing, SourceFile({"root"}, <<>>), SourceFile({"root"}, MainFareCsv)}

\* lrt-malaysia.csv: missing; empty; Kajang under the usual header; Kajang,
\* or only Maluri, under a header without latitude and longitude; a line
\* that ends before its station_name cell.
MainRegistryFiles ==
    {Missing} \cup
    {SourceFile({"root"}, rows) : rows \in
        { <<>>
        , <<RegistryHeader, RegistryLine(StesenKajang, OnEdge)>>
        , <<RenamedHeader, RegistryLine(StesenKajang, OnEdge)>>
        , <<RenamedHeader, RegistryLine(MaluriSBK, OnEdge)>>
        , <<NameLastHeader, <<OnEdge[1]>> >> }}

\* The copies of a transport source with one of the contents: none, or one
\* in the source directory, next to the scripts, or both.
Copies(contents) ==
    {Missing} \cup
    {SourceFile(dirs, rows) : dirs \in (SUBSET {"source", "root"}) \ {{}}, rows \in contents}

\* bus_domestic.csv: a Johor terminal; a line that ends after the state.
MainBusFiles ==
    Copies({ <<BusHeader, <<Johor, Larkin>> >>, <<BusHeader, <<Kedah>> >> })

\* The vehicles file: one row.
MainVehicleFiles ==
    Copies({ << <<"Year", "Type of vehicle", "Value">>,
                << <<"2","0","2","0">>, Cars, <<"1","0","0">> >> >> })

\* ridership_headline.csv: a January day with a count; the same day with an
\* infinite count.
RidershipHeader == <<"date", "rail_lrt_ampang", "rail_lrt_kj">>
MainRidershipFiles ==
    Copies({ <<RidershipHeader,
               << <<"0","1","/","1","5","/","2","0","2","2">>, <<"1","0","0","0">>, <<>> >> >>
           , <<RidershipHeader,
               << <<"0","1","/","1","5","/","2","0","2","2">>, <<"i","n","f">>, <<>> >> >> })

InitMain ==
    /\ pipeline \in {"ampang", "transport"}
    /\ pc = "main_start"
    /\ IF pipeline = "ampang"
       THEN /\ \E fare \in MainFareFiles : \E registry \in MainRegistryFiles :
                 src_files = [name \in {"Fare.csv", "lrt-malaysia.csv"} |->
                                 IF name = "Fare.csv" THEN fare ELSE registry]
            /\ out_files \in [Range(AmpangOutputs) -> {"absent", "previous"}]
       ELSE /\ \E bus \in MainBusFiles : \E vehicles \in MainVehicleFiles :
                 \E ridership \in MainRidershipFiles :
                    src_files = [name \in Range(TransportSources) |->
                                    IF name = "bus_domestic.csv" THEN bus
                                    ELSE IF name = VehiclesCsv THEN vehicles
                                    ELSE ridership]
            /\ out_files \in [Range(TransportOutputs) -> {"absent", "previous"}]
    /\ IdleCanon /\ IdleAmpang /\ IdleBus /\ IdleVehicle /\ IdleRail

\* A step of main() that writes the output file name.
WriteStep(from, name, to) ==
    /\ pc = from
    /\ pc' = to
    /\ out_files' = Write(out_files, name)
    /\ UNCHANGED <<pipeline, src_files, canon_vars, ampang_vars, bus_vars,
                   vehicle_vars, rail_vars>>

\* prepare_ampang_data.main ------------------------------------------------

\* DATA_DIR.mkdir(exist_ok=True); read_fare_matrix(FARE_PATH)
AmpangReadFare ==
    /\ pipeline = "ampang"
    /\ pc = "main_start"
    /\ \E r \in {read_fare_matrix(src_files["Fare.csv"].rows)} :
           IF FareMatrixRaises(src_files["Fare.csv"], r)
           THEN pc' = "exit_error" /\ UNCHANGED <<station_order, tidy_rows>>
           ELSE /\ pc' = "write_fare_json"
                /\ station_order' = r.station_order
                /\ tidy_rows' = r.tidy_rows
    /\ UNCHANGED <<fare_csv, station_csv, matched, unmatched, main_vars,
                   canon_vars, bus_vars, vehicle_vars, rail_vars>>

AmpangWriteFareJson == WriteStep("write_fare_json", "fare_long.json", "write_fare_csv")

AmpangWriteFareCsv == WriteStep("write_fare_csv", "fare_long.csv", "match_stations")

\* match_station_locations(station_order, STATIONS_PATH)
AmpangMatchStations ==
    /\ pc = "match_stations"
    /\ \E r \in {match_station_locations(station_order, src_files["lrt-malaysia.csv"].rows)} :
           IF StationsRaises(src_files["lrt-malaysia.csv"], r)
           THEN pc' = "exit_error" /\ UNCHANGED <<matched, unmatched>>
           ELSE /\ pc' = "write_locations"
                /\ matched' = r.matched
                /\ unmatched' = r.unmatched
    /\ UNCHANGED <<fare_csv, station_csv, station_order, tidy_rows, main_vars,
                   canon_vars, bus_vars, vehicle_vars, rail_vars>>

AmpangWriteLocations ==
    WriteStep("write_locations", "ampang_station_locations.json", "write_route")

AmpangWriteRoute == WriteStep("write_route", "ampang_route.json", "write_station_list")

\* The last write, then the summary and the warnings; main returns 0.
AmpangWriteStationList ==
    WriteStep("write_station_list", "ampang_station_list.json", "exit_0")

\* prepare_transport_data.main ---------------------------------------------

\* DATA_DIR.mkdir(exist_ok=True); load_csv(bus_path); build_state_bus_counts
TransportLoadBus ==
    /\ pipeline = "transport"
    /\ pc = "main_start"
    /\ LET file == src_files["bus_domestic.csv"]
       IN  IF LoadCsvRaises(file.dirs)
           THEN pc' = "exit_error" /\ UNCHANGED bus_vars
           ELSE /\ bus_rows' = load_csv(file)
                /\ \E r \in {build_state_bus_counts(load_csv(file))} :
                       IF r.raised
                       THEN pc' = "exit_error" /\ UNCHANGED bus_records
                       ELSE pc' = "write_bus" /\ bus_records' = r.records
    /\ UNCHANGED <<main_vars, canon_vars, ampang_vars, vehicle_vars, rail_vars>>

TransportWriteBus == WriteStep("write_bus", "state_bus_counts.json", "load_vehicles")

\* load_csv(vehicles_path); build_motor_vehicle_trend
TransportLoadVehicles ==
    /\ pc = "load_vehicles"
    /\ LET file == src_files[VehiclesCsv]
       IN  IF LoadCsvRaises(file.dirs)
           THEN pc' = "exit_error" /\ UNCHANGED vehicle_vars
           ELSE /\ pc' = "write_vehicles"
                /\ vehicle_rows' = load_csv(file)
                /\ vehicle_records' = build_motor_vehicle_trend(load_csv(file))
    /\ UNCHANGED <<main_vars, canon_vars, ampang_vars, bus_vars, rail_vars>>

TransportWriteVehicles ==
    WriteStep("write_vehicles", "motor_vehicles_trend.json", "load_ridership")

\* load_csv(ridership_path); build_rail_monthly_ridership
TransportLoadRidership ==
    /\ pc = "load_ridership"
    /\ LET file == src_files["ridership_headline.csv"]
       IN  IF LoadCsvRaises(file.dirs)
           THEN pc' = "exit_error" /\ UNCHANGED rail_vars
           ELSE /\ ridership_rows' = load_csv(file)
                /\ \E r \in {build_rail_monthly_ridership(load_csv(file))} :
                       IF r.raised
                       THEN pc' = "exit_error" /\ UNCHANGED ridership_records
                       ELSE pc' = "write_ridership" /\ ridership_records' = r.records
    /\ UNCHANGED <<main_vars, canon_vars, ampang_vars, bus_vars, vehicle_vars>>

\* The last write, then the summary; main returns.
TransportWriteRidership ==
    WriteStep("write_ridership", "rail_monthly_ridership.json", "exit_0")

NextMain ==
    \/ AmpangReadFare \/ AmpangWriteFareJson \/ AmpangWriteFareCsv
    \/ AmpangMatchStations \/ AmpangWriteLocations \/ AmpangWriteRoute
    \/ AmpangWriteStationList
    \/ TransportLoadBus \/ TransportWriteBus \/ TransportLoadVehicles
    \/ TransportWriteVehicles \/ TransportLoadRidership \/ TransportWriteRidership

SpecMain == InitMain /\ [][NextMain]_vars

\* The run has ended; the output files it has written.
C6_Terminated == pc \in {"exit_0", "exit_error"}
C6_Fresh == {f \in DOMAIN out_files : out_files[f] = "fresh"}

\* C6 as stated: in every terminal state of a run, fatal aborts included,
\* either all output files of the pipeline have been rewritten or none has.
C6_AllOrNothing ==
    C6_Terminated => (C6_Fresh = DOMAIN out_files \/ C6_Fresh = {})

\* A source file the run can read and process: some directory holds it
\* and, for Fare.csv, it has a first row; for the others, the function fed
\* with its rows returns.
C6_FareLoads ==
    src_files["Fare.csv"].dirs # {} /\ src_files["Fare.csv"].rows # <<>>
C6_StationsLoad ==
    /\ src_files["lrt-malaysia.csv"].dirs # {}
    /\ ~match_station_locations(read_fare_matrix(src_files["Fare.csv"].rows).station_order,
                                src_files["lrt-malaysia.csv"].rows).raised
C6_BusLoads ==
    /\ src_files["bus_domestic.csv"].dirs # {}
    /\ ~build_state_bus_counts(DictReader(src_files["bus_domestic.csv"].rows)).raised
C6_VehiclesLoad == src_files[VehiclesCsv].dirs # {}
C6_RidershipLoads ==
    /\ src_files["ridership_headline.csv"].dirs # {}
    /\ ~build_rail_monthly_ridership(
            DictReader(src_files["ridership_headline.csv"].rows)).raised

\* The output files main() writes before the first source that fails; all
\* of them when no source fails.
C6_WrittenBeforeFailure ==
    IF pipeline = "ampang"
    THEN IF ~C6_FareLoads THEN {}
         ELSE IF ~C6_StationsLoad THEN {"fare_long.json", "fare_long.csv"}
         ELSE Range(AmpangOutputs)
    ELSE IF ~C6_BusLoads THEN {}
         ELSE IF ~C6_VehiclesLoad THEN {"state_bus_counts.json"}
         ELSE IF ~C6_RidershipLoads
              THEN {"state_bus_counts.json", "motor_vehicles_trend.json"}
              ELSE Range(TransportOutputs)

\* C6 as amended: a run that ends without an error has rewritten every
\* output file of its pipeline; a run that aborts, on a source file that is
\* missing or empty or on an exception raised while its rows are processed,
\* has rewritten exactly the output files whose write precedes the failing
\* step in main() and leaves the later ones as they were.
C6_PrefixWritten ==
    C6_Terminated =>
        /\ C6_Fresh = C6_WrittenBeforeFailure
        /\ pc = "exit_0" <=> C6_Fresh = DOMAIN out_files
        /\ \A f \in DOMAIN out_files \ C6_Fresh : out_files[f] \in {"absent", "previous"}

\* Fare.csv loads, lrt-malaysia.csv is missing: the run aborts with the two
\* fare files fresh next to three station files of the previous run.
C6_Witness ==
    /\ pc = "exit_error"
    /\ pipeline = "ampang"
    /\ src_files["lrt-malaysia.csv"] = Missing
    /\ out_files = [f \in Range(AmpangOutputs) |->
                       IF f \in {"fare_long.json", "fare_long.csv"}
                       THEN "fresh" ELSE "previous"]
====
